---- MODULE Spec2Model ----
(***************************************************************************)
(* A model of js-libp2p-webtransport: the fingerprint subset check          *)
(* (utils.ts), the dialer (index.ts: dial, authenticateWebTransport), the   *)
(* stream-multiplexer emulation (muxer.ts), the multiaddr parser           *)
(* (index.ts: parseMultiaddr) and the listener (listener.ts, create-server: *)
(* listen, the wait for session.ready, onSession, close).                   *)
(*                                                                         *)
(* The module holds these specifications over groups of variables:         *)
(*   SubsetSpec  isSubset applied to bounded lists of byte arrays           *)
(*   DialSpec    one dial, from `new WebTransport` to its settled promise   *)
(*   Spec        one muxer (createStreamMuxer) and its Managed Streams      *)
(*   StreamSpec  one Managed Stream under every use of its API              *)
(*   WrapSpec    the registration of streams against their observers       *)
(*   CloseSpec   streams of a session that closes, with fairness            *)
(*   ListenSpec  the listener's handling of accepted sessions               *)
(*   UpgradeSpec one dial and one accepted session up to their upgrade      *)
(*   ParseSpec   parseMultiaddr applied to bounded multiaddrs               *)
(* Each specification leaves the groups it does not use at their initial   *)
(* values.                                                                 *)
(***************************************************************************)
EXTENDS Integers, Sequences, FiniteSets, TLC

VARIABLES
  \* ---- utils.ts: isSubset -------------------------------------------------
  set,            \* first argument: the list of byte arrays searched
  maybeSubset,    \* second argument: the list whose members are looked up
  subsetPc,       \* "input" before the call, "done" after it returned
  subsetResult    \* the boolean isSubset returned

VARIABLES
  \* ---- muxer.ts: one muxer returned by createStreamMuxer ------------------
  stream,          \* native stream slot -> the Managed Stream wrapping it and its native halves
  activeStreams,   \* the activeStreams array: slots in push order
  streamIDCounter, \* the factory's streamIDCounter
  loopPc,          \* the inbound loop: "reading", "wrapping", "ended", "crashed"
  wtClosed,        \* the native session is closed: wt.close() was called, or the peer closed it
  initDirection,   \* init?.direction given to createStreamMuxer
  muxer            \* the session the muxer serves and the outcome of createStreamMuxer:
                   \* [role, aborted, returned, taken, created, given, configured, limit]

VARIABLES
  \* ---- index.ts: one call of WebTransportTransport.dial -------------------
  dialPc,           \* where dial is: "awaitReady", "createStream", "writerReady",
                    \* "handshake", "upgrade", "resolved", "rejected"
  certhashes,       \* the certhashes parseMultiaddr took from the dialed address
  remoteExtensions, \* what secureOutbound returned: [got, hashes]
  signalAborted,    \* options.signal.aborted
  wtState,          \* the native session: "connecting", "ready", "failed", "closed"
  wtCloseCalls,     \* wt.close() calls made by dial
  dialError,        \* why dial rejected, "none" otherwise
  dialRejections,   \* rejections delivered to dial's caller
  upgraderCalls,    \* upgrader.upgradeOutbound calls
  upgraderOptions   \* the options of the last of them

VARIABLES
  \* ---- listener.ts: the accept path of one WebTransportListener ------------
  session,          \* accepted session -> [pc, ready, closed, closeCode, reason, ...]
  connections,      \* this.connections: the sessions whose connection is tracked
  handled,          \* session -> number of this.handler(connection) calls
  connectionEvents, \* session -> number of 'connection' events dispatched
  hasHandler,       \* init.handler was given
  listener          \* the listener and its server: [server, errorEvents, closePc,
                    \* closing, stopCalls]

VARIABLES
  \* ---- index.ts: one call of parseMultiaddr ---------------------------------
  ma,               \* ma.stringTuples(): the address as a list of [proto, value]
  parsePc,          \* "input" before the call, "done" after it returned or threw
  parseResult       \* [threw, url, certhashes, remotePeer]

subsetVars == <<set, maybeSubset, subsetPc, subsetResult>>
muxVars == <<stream, activeStreams, streamIDCounter, loopPc, wtClosed, initDirection, muxer>>
dialVars == <<dialPc, certhashes, remoteExtensions, signalAborted, wtState, wtCloseCalls,
              dialError, dialRejections, upgraderCalls, upgraderOptions>>
listenVars == <<session, connections, handled, connectionEvents, hasHandler, listener>>

parseVars == <<ma, parsePc, parseResult>>

vars == <<subsetVars, muxVars, dialVars, listenVars, parseVars>>

nonSubsetVars == <<muxVars, dialVars, listenVars, parseVars>>
nonMuxVars == <<subsetVars, dialVars, listenVars, parseVars>>
nonDialVars == <<subsetVars, muxVars, listenVars, parseVars>>
nonListenVars == <<subsetVars, muxVars, dialVars, parseVars>>
nonParseVars == <<subsetVars, muxVars, dialVars, listenVars>>

----------------------------------------------------------------------------
(* Bounds of the isSubset inputs *)
MaxLen == 1       \* longest byte array
MaxList == 2      \* longest list of byte arrays

Bytes == {0, 1}

RECURSIVE SeqsUpTo(_, _)
SeqsUpTo(S, n) ==
  IF n = 0 THEN {<<>>}
  ELSE LET shorter == SeqsUpTo(S, n - 1)
       IN shorter \cup {Append(q, x) : q \in {r \in shorter : Len(r) = n - 1}, x \in S}

ByteArrays == SeqsUpTo(Bytes, MaxLen)
ByteArrayLists == SeqsUpTo(ByteArrays, MaxList)

----------------------------------------------------------------------------
(* utils.ts: isSubset *)

\* the for-loop of the find callback (utils.ts 11-16), from `index` on;
\* indices are 1-based here
RECURSIVE bytesMatchFrom(_, _, _)
bytesMatchFrom(byteArray, otherByteArray, index) ==
  IF index > Len(byteArray) THEN TRUE
  ELSE IF index > Len(otherByteArray) THEN FALSE   \* undefined !== byte
  ELSE IF otherByteArray[index] # byteArray[index] THEN FALSE
  ELSE bytesMatchFrom(byteArray, otherByteArray, index + 1)

\* the find callback without its length test: a prefix of otherByteArray matches
sameBytesNoLengthTest(byteArray, otherByteArray) ==
  bytesMatchFrom(byteArray, otherByteArray, 1)

\* the find callback (utils.ts 6-17)
sameBytes(byteArray, otherByteArray) ==
  IF Len(byteArray) # Len(otherByteArray) THEN FALSE
  ELSE bytesMatchFrom(byteArray, otherByteArray, 1)

\* set.find(callback): the index of the first match from `from` on, 0 for undefined
RECURSIVE findFrom(_, _, _)
findFrom(s, byteArray, from) ==
  IF from > Len(s) THEN 0
  ELSE IF sameBytes(byteArray, s[from]) THEN from
  ELSE findFrom(s, byteArray, from + 1)

\* Boolean(set.find(...)): a found Uint8Array is an object, hence truthy
foundIn(s, byteArray) == findFrom(s, byteArray, 1) # 0

isSubset(s, m) ==
  LET keep(byteArray) == foundIn(s, byteArray)
      intersection == SelectSeq(m, keep)
  IN Len(intersection) = Len(m)

----------------------------------------------------------------------------
(* muxer.ts: the Managed Stream built by webtransportBiDiStreamToStream *)

MaxStreams == 3          \* native bidirectional streams of the session, both directions
maxInboundStreams == 2   \* init.maxInboundStreams, when the transport is given one

Streams == 1..MaxStreams

\* A slot before its native stream exists.  Date.now() is abstracted: timelineClose
\* is 0 while stat.timeline.close is unset and 1 once it was stamped.
NoStream ==
  [ st |-> "absent",          \* "absent", "wrapping" (await writer.ready), "open", "rejected", "failed"
    inbound |-> FALSE,        \* taken from the native inbound sequence
    native |-> [origin |-> "none", seq |-> 0],
                              \* which native stream of the session it is: the seq-th of
                              \* the "incoming" sequence or the seq-th one "created" here
    direction |-> "none",     \* stat.direction
    id |-> "",                \* the id string
    surfaced |-> FALSE,       \* passed to init.onIncomingStream
    seenActive |-> 0,         \* activeStreams.length when the inbound loop took it
    seenInbound |-> 0,        \* of those, the streams that had arrived inbound
    writerClosed |-> FALSE,
    readerClosed |-> FALSE,
    sinkSunk |-> FALSE,
    timelineClose |-> 0,
    removals |-> 0,           \* splices of this stream out of activeStreams
    streamEnds |-> 0,         \* onStreamEnd(stream) calls
    cancels |-> 0,            \* native reader.cancel() / readable.cancel() calls
    closes |-> 0,             \* native writer.close() / writable.close() calls
    aborts |-> 0,             \* native writer.abort() calls
    wNative |-> "open",       \* writable half: "open", "closing", "closed", "errored"
    rNative |-> "open",       \* readable half: "open", "ended", "cancelled", "errored"
    cancelP |-> "none",       \* "reset": cancel() rejected with RESET_STREAM, handler not yet run
    closeP |-> "none",        \* "reset": close() rejected with RESET_STREAM, handler not yet
                              \* run; "handled": its handler has run
    obsW |-> FALSE,           \* the writer.closed observer has run
    obsR |-> FALSE,           \* the reader.closed observer has run
    sinkPc |-> "idle",        \* first sink invocation: "idle", "running", "resolved", "rejected"
    sinkStarts |-> 0,         \* sink invocations that entered the try block
    sinkThrew |-> FALSE,      \* an invocation threw 'sink already called on stream'
    lateWrite |-> FALSE,      \* the sink issued writer.write() after writer.close()/abort()
    srcDone |-> FALSE,        \* the source generator has returned or thrown
    readDone |-> FALSE,       \* closeRead() has returned, or the source saw end-of-stream
    writeDone |-> FALSE ]     \* closeWrite() has returned (called directly or by the sink's finally)

Digits == <<"0", "1", "2", "3", "4", "5", "6", "7", "8", "9">>

\* String(n) for a non-negative integer
RECURSIVE String(_)
String(n) == IF n < 10 THEN Digits[n + 1] ELSE String(n \div 10) \o Digits[(n % 10) + 1]

\* activeStreams.findIndex(s => s === stream), 1-based; 0 stands for -1
RECURSIVE findIndexFrom(_, _, _)
findIndexFrom(act, s, from) ==
  IF from > Len(act) THEN 0
  ELSE IF act[from] = s THEN from
  ELSE findIndexFrom(act, s, from + 1)

findIndex(act, s) == findIndexFrom(act, s, 1)

\* activeStreams.splice(index, 1)
splice(act, index) == SubSeq(act, 1, index - 1) \o SubSeq(act, index + 1, Len(act))

\* The operations below take and return h = [str |-> the stream's record,
\* act |-> activeStreams]: what one synchronous call reads and writes.

cleanupStreamFromActiveStreams(s, h) ==
  LET index == findIndex(h.act, s)
  IN IF index # 0
     THEN [ str |-> [h.str EXCEPT !.timelineClose = 1,
                                  !.streamEnds = @ + 1,
                                  !.removals = @ + 1],
            act |-> splice(h.act, index) ]
     ELSE h

\* the observer recording its flag without looking at the other one
writerClosedObserver_FlagOnly(s, h) ==
  [h EXCEPT !.str.obsW = TRUE, !.str.writerClosed = TRUE]

\* muxer.ts 112-126: writer.closed settles
writerClosedObserver(s, h) ==
  LET h1 == [h EXCEPT !.str.obsW = TRUE, !.str.writerClosed = TRUE]
  IN IF h1.str.writerClosed /\ h1.str.readerClosed
     THEN cleanupStreamFromActiveStreams(s, h1) ELSE h1

\* muxer.ts 128-139: reader.closed settles
readerClosedObserver(s, h) ==
  LET h1 == [h EXCEPT !.str.obsR = TRUE, !.str.readerClosed = TRUE]
  IN IF h1.str.writerClosed /\ h1.str.readerClosed
     THEN cleanupStreamFromActiveStreams(s, h1) ELSE h1

\* the stream object built and pushed only after the observers of the halves that
\* are already settled have run
wrapDone_ObserversFirst(s, h, r, w) ==
  LET built == [h EXCEPT !.str = [h.str EXCEPT !.st = "open", !.surfaced = h.str.inbound,
                                              !.rNative = r, !.wNative = w]]
      h1 == IF w \in {"closed", "errored"} THEN writerClosedObserver(s, built) ELSE built
      h2 == IF r \in {"ended", "cancelled", "errored"} THEN readerClosedObserver(s, h1) ELSE h1
  IN [h2 EXCEPT !.act = Append(@, s)]

\* muxer.ts 99-228, then 54-55 or 68-70: after writer.ready the two observers are
\* started, the stream object is built and returned, and the caller pushes it; an
\* inbound one is passed to onIncomingStream.  r and w are the native halves as
\* the continuation finds them.  The caller's continuation is queued when the
\* async function returns, ahead of the continuations of the observers (which
\* await the promise derived by catch), so the push comes before any observer.
wrapDone(s, h, r, w) ==
  [ str |-> [h.str EXCEPT !.st = "open", !.surfaced = h.str.inbound,
                          !.rNative = r, !.wNative = w],
    act |-> Append(h.act, s) ]

\* native reader.cancel(): an open readable is cancelled; on an errored one the
\* promise rejects, and resetSeen says whether the error text names RESET_STREAM
readerCancel(r, resetSeen) ==
  [r EXCEPT !.cancels = @ + 1,
            !.rNative = IF @ = "open" THEN "cancelled" ELSE @,
            !.cancelP = IF r.rNative = "errored" /\ resetSeen THEN "reset" ELSE @]

\* native writer.close(): an open writable starts closing; on an errored one the
\* promise rejects, and resetSeen says whether the error text names RESET_STREAM
writerClose(r, resetSeen) ==
  [r EXCEPT !.closes = @ + 1,
            !.wNative = IF @ = "open" THEN "closing" ELSE @,
            !.closeP = IF r.wNative = "errored" /\ resetSeen THEN "reset" ELSE @]

\* native writer.abort()
writerAbort(r) ==
  [r EXCEPT !.aborts = @ + 1,
            !.wNative = IF @ \in {"open", "closing"} THEN "errored" ELSE @]

\* closeRead finalizing without looking at writerClosed
closeRead_CleanupUnguarded(s, h, resetSeen) ==
  LET h1 == IF ~h.str.readerClosed
            THEN [h EXCEPT !.str = [readerCancel(h.str, resetSeen) EXCEPT !.readerClosed = TRUE]]
            ELSE h
  IN [cleanupStreamFromActiveStreams(s, h1) EXCEPT !.str.readDone = TRUE]

\* closeRead cancelling the reader on every call
closeRead_CancelUnguarded(s, h, resetSeen) ==
  LET h1 == [h EXCEPT !.str = [readerCancel(h.str, resetSeen) EXCEPT !.readerClosed = TRUE]]
      h2 == IF h1.str.writerClosed THEN cleanupStreamFromActiveStreams(s, h1) ELSE h1
  IN [h2 EXCEPT !.str.readDone = TRUE]

closeRead(s, h, resetSeen) ==
  LET h1 == IF ~h.str.readerClosed
            THEN [h EXCEPT !.str = [readerCancel(h.str, resetSeen) EXCEPT !.readerClosed = TRUE]]
            ELSE h
      h2 == IF h1.str.writerClosed THEN cleanupStreamFromActiveStreams(s, h1) ELSE h1
  IN [h2 EXCEPT !.str.readDone = TRUE]

\* closeWrite that never finalizes
closeWrite_NoCleanup(s, h, resetSeen) ==
  LET h1 == IF ~h.str.writerClosed
            THEN [h EXCEPT !.str = writerClose([h.str EXCEPT !.writerClosed = TRUE], resetSeen)]
            ELSE h
  IN [h1 EXCEPT !.str.writeDone = TRUE]

closeWrite(s, h, resetSeen) ==
  LET h1 == IF ~h.str.writerClosed
            THEN [h EXCEPT !.str = writerClose([h.str EXCEPT !.writerClosed = TRUE], resetSeen)]
            ELSE h
      h2 == IF h1.str.readerClosed THEN cleanupStreamFromActiveStreams(s, h1) ELSE h1
  IN [h2 EXCEPT !.str.writeDone = TRUE]

close(s, h, resetSeen) ==
  cleanupStreamFromActiveStreams(s, closeWrite(s, closeRead(s, h, resetSeen), resetSeen))

\* abort closing the write side gracefully, as close does
abort_Graceful(s, h, resetSeen) ==
  cleanupStreamFromActiveStreams(s, closeWrite(s, closeRead(s, h, resetSeen), resetSeen))

\* abort calling writer.abort() whatever writerClosed says
abort_Unguarded(s, h, resetSeen) ==
  LET h1 == [h EXCEPT !.str = [writerAbort(h.str) EXCEPT !.writerClosed = TRUE]]
      h2 == closeRead(s, h1, resetSeen)
      h3 == [h2 EXCEPT !.str.readerClosed = TRUE]
  IN cleanupStreamFromActiveStreams(s, h3)

\* muxer.ts 144-152
abort(s, h, resetSeen) ==
  LET h1 == IF ~h.str.writerClosed
            THEN [h EXCEPT !.str = [writerAbort(h.str) EXCEPT !.writerClosed = TRUE]]
            ELSE h
      h2 == closeRead(s, h1, resetSeen)
      h3 == [h2 EXCEPT !.str.readerClosed = TRUE]
  IN cleanupStreamFromActiveStreams(s, h3)

reset(s, h, resetSeen) == close(s, h, resetSeen)

----------------------------------------------------------------------------
(* index.ts: parseMultiaddr *)

MaxParts == 4     \* longest address, in components

HostProtos == {"ip4", "ip6", "dns4", "dns6"}

\* the [proto, value] tuples an address is made of; tcp stands for every
\* protocol parseMultiaddr has no case for
Components ==
  { [proto |-> "ip4", value |-> "127.0.0.1"],
    [proto |-> "ip6", value |-> "::1"],
    [proto |-> "dns4", value |-> "a.io"],
    [proto |-> "dns6", value |-> "b.io"],
    [proto |-> "udp", value |-> "9091"],
    [proto |-> "quic", value |-> ""],
    [proto |-> "webtransport", value |-> ""],
    [proto |-> "certhash", value |-> "uEiA"],
    [proto |-> "certhash", value |-> "uEiB"],
    [proto |-> "p2p", value |-> "12D3"],
    [proto |-> "tcp", value |-> "80"] }

Multiaddrs == SeqsUpTo(Components, MaxParts) \ {<<>>}

\* index.ts 32-34: the multihash bytes a certhash string decodes to
decodeCerthashStr(s) == IF s = "uEiA" THEN <<0>> ELSE <<1>>

\* peerIdFromString
peerIdFromString(s) == [peerId |-> s]

\* index.ts 88: the initial value of the reduce; threw names the error thrown
parseInitialState ==
  [ threw |-> "none", url |-> "https://", certhashes |-> <<>>,
    seenHost |-> FALSE, seenPort |-> FALSE, remotePeer |-> "undefined" ]

\* index.ts 41-86: the reduce callback
parseReducer(state, part) ==
  CASE part.proto \in HostProtos ->
         IF state.seenHost \/ state.seenPort
         THEN [state EXCEPT !.threw = "saw host and already saw the host or port"]
         ELSE [state EXCEPT !.url = @ \o part.value, !.seenHost = TRUE]
    [] part.proto \in {"quic", "webtransport"} ->
         IF ~state.seenHost \/ ~state.seenPort
         THEN [state EXCEPT !.threw = "didn't see host and port, but saw quic/webtransport"]
         ELSE state
    [] part.proto = "udp" ->
         IF state.seenPort
         THEN [state EXCEPT !.threw = "saw port but already saw the port"]
         ELSE [state EXCEPT !.url = @ \o ":" \o part.value, !.seenPort = TRUE]
    [] part.proto = "certhash" ->
         IF ~state.seenHost \/ ~state.seenPort
         THEN [state EXCEPT !.threw = "saw the certhash before seeing the host and port"]
         ELSE [state EXCEPT !.certhashes = Append(@, decodeCerthashStr(part.value))]
    [] part.proto = "p2p" ->
         [state EXCEPT !.remotePeer = peerIdFromString(part.value)]
    [] OTHER ->
         [state EXCEPT !.threw = "unexpected component in multiaddr"]

\* parts.reduce(callback, initial) from component i on; a throw leaves the reduce
RECURSIVE parseReduce(_, _, _)
parseReduce(state, parts, i) ==
  IF i > Len(parts) \/ state.threw # "none" THEN state
  ELSE parseReduce(parseReducer(state, parts[i]), parts, i + 1)

\* index.ts 36-91
parseMultiaddr(parts) ==
  LET state == parseReduce(parseInitialState, parts, 1)
  IN IF state.threw # "none"
     THEN [threw |-> state.threw, url |-> "", certhashes |-> <<>>, remotePeer |-> "undefined"]
     ELSE [threw |-> "none", url |-> state.url, certhashes |-> state.certhashes,
           remotePeer |-> state.remotePeer]

NoParseResult == [threw |-> "none", url |-> "", certhashes |-> <<>>, remotePeer |-> "undefined"]

\* no call of parseMultiaddr: the value of its variables under the other specifications
ParseIdle ==
  /\ ma = <<>>
  /\ parsePc = "input"
  /\ parseResult = NoParseResult

ParseInit ==
  /\ ma \in Multiaddrs
  /\ parsePc = "input"
  /\ parseResult = NoParseResult

CallParseMultiaddr ==
  /\ parsePc = "input"
  /\ parseResult' = parseMultiaddr(ma)
  /\ parsePc' = "done"
  /\ UNCHANGED ma
  /\ UNCHANGED nonParseVars

ParseNext == CallParseMultiaddr

----------------------------------------------------------------------------
(* index.ts: dial and authenticateWebTransport *)

MaxCerts == 2     \* longest list of certhashes in an address or in the handshake

\* the multihash bytes certhashes are compared by
CertHashes == {<<0>>, <<1>>, <<0, 1>>}
CertHashLists == SeqsUpTo(CertHashes, MaxCerts)

NoExtensions == [got |-> "none", hashes |-> <<>>]

\* the upgrader not called yet; muxerFactory names the native session the factory
\* was built on
NoUpgradeOptions == [skipEncryption |-> FALSE, skipProtection |-> FALSE, muxerFactory |-> "none"]

\* what the handshake can return: no webtransportCerthashes extension, or a list
Extensions ==
  {[got |-> "undefined", hashes |-> <<>>]}
    \cup {[got |-> "list", hashes |-> l] : l \in CertHashLists}

\* no dial: the value of the dial's variables under the other specifications
DialIdle ==
  /\ dialPc = "awaitReady"
  /\ certhashes = <<>>
  /\ remoteExtensions = NoExtensions
  /\ signalAborted = FALSE
  /\ wtState = "connecting"
  /\ wtCloseCalls = 0
  /\ dialError = "none"
  /\ dialRejections = 0
  /\ upgraderCalls = 0
  /\ upgraderOptions = NoUpgradeOptions

\* index.ts 127-148: dial has parsed the address, built the native session and
\* awaits wt.ready
DialInit ==
  /\ dialPc = "awaitReady"
  /\ certhashes \in CertHashLists
  /\ remoteExtensions = NoExtensions
  /\ signalAborted \in BOOLEAN
  /\ wtState = "connecting"
  /\ wtCloseCalls = 0
  /\ dialError = "none"
  /\ dialRejections = 0
  /\ upgraderCalls = 0
  /\ upgraderOptions = NoUpgradeOptions

\* native wt.close(): closes a session that is connecting or ready
wtClose(state) == IF state \in {"connecting", "ready"} THEN "closed" ELSE state

\* index.ts 188-191: the catch block, then the rejection reaches the caller
dialCatch(err) ==
  /\ wtState' = wtClose(wtState)
  /\ wtCloseCalls' = wtCloseCalls + 1
  /\ dialError' = err
  /\ dialRejections' = dialRejections + 1
  /\ dialPc' = "rejected"

\* index.ts 148: wt.ready resolves
ReadyResolves ==
  /\ dialPc = "awaitReady"
  /\ wtState = "connecting"
  /\ wtState' = "ready"
  /\ dialPc' = "createStream"
  /\ UNCHANGED <<certhashes, remoteExtensions, signalAborted, wtCloseCalls, dialError,
                 dialRejections, upgraderCalls, upgraderOptions>>
  /\ UNCHANGED nonDialVars

\* index.ts 148: wt.ready rejects, outside the try block: dial rejects as is
ReadyRejects ==
  /\ dialPc = "awaitReady"
  /\ wtState = "connecting"
  /\ wtState' = "failed"
  /\ dialError' = "ready"
  /\ dialRejections' = dialRejections + 1
  /\ dialPc' = "rejected"
  /\ UNCHANGED <<certhashes, remoteExtensions, signalAborted, wtCloseCalls, upgraderCalls,
                 upgraderOptions>>
  /\ UNCHANGED nonDialVars

\* index.ts 195: createBidirectionalStream resolves
AuthStreamCreated ==
  /\ dialPc = "createStream"
  /\ dialPc' = "writerReady"
  /\ UNCHANGED <<certhashes, remoteExtensions, signalAborted, wtState, wtCloseCalls,
                 dialError, dialRejections, upgraderCalls, upgraderOptions>>
  /\ UNCHANGED nonDialVars

\* index.ts 195: createBidirectionalStream rejects
AuthStreamFails ==
  /\ dialPc = "createStream"
  /\ dialCatch("stream")
  /\ UNCHANGED <<certhashes, remoteExtensions, signalAborted, upgraderCalls,
                 upgraderOptions>>
  /\ UNCHANGED nonDialVars

\* index.ts 198: writer.ready resolves and secureOutbound starts
AuthWriterReady ==
  /\ dialPc = "writerReady"
  /\ dialPc' = "handshake"
  /\ UNCHANGED <<certhashes, remoteExtensions, signalAborted, wtState, wtCloseCalls,
                 dialError, dialRejections, upgraderCalls, upgraderOptions>>
  /\ UNCHANGED nonDialVars

\* index.ts 198: writer.ready rejects
AuthWriterFails ==
  /\ dialPc = "writerReady"
  /\ dialCatch("stream")
  /\ UNCHANGED <<certhashes, remoteExtensions, signalAborted, upgraderCalls,
                 upgraderOptions>>
  /\ UNCHANGED nonDialVars

\* index.ts 227: secureOutbound rejects
HandshakeFails ==
  /\ dialPc = "handshake"
  /\ dialCatch("handshake")
  /\ UNCHANGED <<certhashes, remoteExtensions, signalAborted, upgraderCalls,
                 upgraderOptions>>
  /\ UNCHANGED nonDialVars

\* remoteExtensions?.webtransportCerthashes ?? []
reportedCerthashes(ext) == IF ext.got = "list" THEN ext.hashes ELSE <<>>

\* the subset test with its arguments exchanged
certhashesVerified_Swapped(ext, dialed) == isSubset(dialed, reportedCerthashes(ext))

\* index.ts 239: the dialed certhashes are a subset of the reported ones
certhashesVerified(ext, dialed) == isSubset(reportedCerthashes(ext), dialed)

\* index.ts 183-187: the options of upgradeOutbound; the factory is built on wt
upgradeOutboundOptions ==
  [skipEncryption |-> TRUE, skipProtection |-> TRUE, muxerFactory |-> "wt"]

\* the signal test left out
signalIsAborted_Ignored(aborted) == FALSE

\* index.ts 178: options.signal?.aborted === true
signalIsAborted(aborted) == aborted

\* index.ts 227-243, 151-187: secureOutbound resolves with the listener's
\* extensions; the subset test, the signal test and the call of the upgrader follow
\* without another await
HandshakeDone ==
  /\ dialPc = "handshake"
  /\ \E ext \in Extensions :
       /\ remoteExtensions' = ext
       /\ IF ~certhashesVerified(ext, certhashes)
          THEN /\ dialCatch("notSubset")
               /\ UNCHANGED <<upgraderCalls, upgraderOptions>>
          ELSE IF signalIsAborted(signalAborted)
          THEN \* wt.close() of line 179, then that of the catch block
               /\ wtState' = wtClose(wtState)
               /\ wtCloseCalls' = wtCloseCalls + 2
               /\ dialError' = "abort"
               /\ dialRejections' = dialRejections + 1
               /\ dialPc' = "rejected"
               /\ UNCHANGED <<upgraderCalls, upgraderOptions>>
          ELSE /\ upgraderCalls' = upgraderCalls + 1
               /\ upgraderOptions' = upgradeOutboundOptions
               /\ dialPc' = "upgrade"
               /\ UNCHANGED <<wtState, wtCloseCalls, dialError, dialRejections>>
  /\ UNCHANGED <<certhashes, signalAborted>>
  /\ UNCHANGED nonDialVars

\* index.ts 183: upgradeOutbound resolves and dial returns the Connection
UpgradeOutboundDone ==
  /\ dialPc = "upgrade"
  /\ dialPc' = "resolved"
  /\ UNCHANGED <<certhashes, remoteExtensions, signalAborted, wtState, wtCloseCalls,
                 dialError, dialRejections, upgraderCalls, upgraderOptions>>
  /\ UNCHANGED nonDialVars

\* index.ts 183: upgradeOutbound rejects
UpgradeOutboundFails ==
  /\ dialPc = "upgrade"
  /\ dialCatch("upgrade")
  /\ UNCHANGED <<certhashes, remoteExtensions, signalAborted, upgraderCalls,
                 upgraderOptions>>
  /\ UNCHANGED nonDialVars

\* the caller aborts options.signal while dial is in flight
SignalAborts ==
  /\ dialPc \notin {"resolved", "rejected"}
  /\ ~signalAborted
  /\ signalAborted' = TRUE
  /\ UNCHANGED <<dialPc, certhashes, remoteExtensions, wtState, wtCloseCalls, dialError,
                 dialRejections, upgraderCalls, upgraderOptions>>
  /\ UNCHANGED nonDialVars

DialNext ==
  \/ ReadyResolves \/ ReadyRejects
  \/ AuthStreamCreated \/ AuthStreamFails
  \/ AuthWriterReady \/ AuthWriterFails
  \/ HandshakeFails \/ HandshakeDone
  \/ UpgradeOutboundDone \/ UpgradeOutboundFails
  \/ SignalAborts

----------------------------------------------------------------------------
(* listener.ts: onSession and the 'session' handler of listen *)

MaxSessions == 2     \* sessions the native server hands to the listener

Sessions == 1..MaxSessions

\* A session the native server has not handed over yet.
\* closed: "no", "plain" (session.close()), "coded" (session.close({closeCode, reason}))
NoSession ==
  [ pc |-> "pending",
    ready |-> "pending",        \* session.ready: "pending", "ready", "failed"
    timedOut |-> FALSE,         \* the session-ready timeout fired first
    emitted |-> 0,              \* 'session' events emitted for it
    authenticated |-> FALSE,    \* secureInbound has resolved
    upgrades |-> 0,             \* upgrader.upgradeInbound calls
    upgradeOptions |-> [skipEncryption |-> FALSE, skipProtection |-> FALSE,
                        muxerFactory |-> 0],
                                \* the options of the last of them; muxerFactory is the
                                \* session the factory was built on
    closed |-> "no", closeCode |-> 0, reason |-> "none",
    closeAttempt |-> "none",    \* attemptClose of its connection: "none", "pending",
                                \* "settled", "failed" (logged)
    attempts |-> 0 ]            \* conn.close() calls made by the listener's close()

\* a listener just constructed: no server yet
NoListener ==
  [ server |-> "none",          \* "none", "starting", "listening", "failed", "stopped"
    errorEvents |-> 0,          \* 'error' events the listener dispatched
    closePc |-> "idle",         \* close(): "idle", "returned" (no server), "closing", "done",
                                \* "rejected"
    closing |-> {},             \* the connections tracked when close() was called
    stopCalls |-> 0,            \* this.server.close() calls
    started |-> FALSE,          \* this.status.started
    listenPc |-> "none",        \* the promise of listen(): "none", "pending", "resolved"
    listeningEvents |-> 0,      \* 'listening' events the listener dispatched
    closeEvents |-> 0,          \* 'close' events the listener dispatched
    nativeClosed |-> "no",      \* server.closed of the native server: "no", "closed", "failed"
    phase |-> "NotStarted" ]    \* "NotStarted", "Starting", "Listening", "Closed", "Error"

\* no listener: the value of the listener's variables under the other specifications
ListenIdle ==
  /\ session = <<>>
  /\ connections = <<>>
  /\ handled = <<>>
  /\ connectionEvents = <<>>
  /\ hasHandler = FALSE
  /\ listener = NoListener

\* listener.ts 87-95: a listener as constructed, with or without a handler
ListenInit ==
  /\ session = [x \in Sessions |-> NoSession]
  /\ connections = <<>>
  /\ handled = [x \in Sessions |-> 0]
  /\ connectionEvents = [x \in Sessions |-> 0]
  /\ hasHandler \in BOOLEAN
  /\ listener = NoListener

\* native session.close(options): the first close decides code and reason
sessionClose(r, how, code, why) ==
  IF r.closed = "no" THEN [r EXCEPT !.closed = how, !.closeCode = code, !.reason = why] ELSE r

\* listener.ts 211-227, create-server.ts 50-51: listen() creates the server and
\* starts it
listenCalled_Resolved(l) ==
  [l EXCEPT !.server = "starting", !.started = TRUE, !.listenPc = "resolved",
            !.phase = "Starting"]

listenCalled(l) ==
  [l EXCEPT !.server = "starting", !.started = TRUE, !.listenPc = "pending",
            !.phase = "Starting"]

Listen ==
  /\ listener.server = "none"
  /\ listener' = listenCalled(listener)
  /\ UNCHANGED <<session, connections, handled, connectionEvents, hasHandler>>
  /\ UNCHANGED nonListenVars

\* create-server.ts 52-59, listener.ts 229-232, 250-256: the native server is
\* ready; 'listening' is emitted, the listener dispatches it, listen() resolves and
\* the loop over the incoming sessions starts
ServerListening ==
  /\ listener.server = "starting"
  /\ listener' = [listener EXCEPT !.server = "listening", !.listeningEvents = @ + 1,
                                   !.listenPc = "resolved", !.phase = "Listening"]
  /\ UNCHANGED <<session, connections, handled, connectionEvents, hasHandler>>
  /\ UNCHANGED nonListenVars

\* create-server.ts 61-63, listener.ts 233-236: the native server fails to start;
\* the server's 'error' is dispatched as the listener's 'error'
ServerStartFails ==
  /\ listener.server = "starting"
  /\ listener' = [listener EXCEPT !.server = "failed", !.errorEvents = @ + 1,
                                   !.phase = "Error"]
  /\ UNCHANGED <<session, connections, handled, connectionEvents, hasHandler>>
  /\ UNCHANGED nonListenVars

\* create-server.ts 57-59, 70-76, listener.ts 233-236: the loop over the incoming
\* sessions rejects (the session stream or a read of it fails); 'error' is
\* dispatched and no further session is taken
SessionLoopFails ==
  /\ listener.server = "listening"
  /\ listener' = [listener EXCEPT !.server = "failed", !.errorEvents = @ + 1,
                                   !.phase = "Error"]
  /\ UNCHANGED <<session, connections, handled, connectionEvents, hasHandler>>
  /\ UNCHANGED nonListenVars

\* native server.address(): null until the socket is bound
Addresses == {"null", "address"}

\* listener.ts 186-209: getAddrs, given what server.address() returns
getAddrs(l, address) ==
  IF ~l.started \/ l.server = "none" THEN <<>>
  ELSE IF address = "null" THEN <<>>
  ELSE <<address>>

\* create-server.ts 75-86: the session reader yields a session; the wait for
\* session.ready starts, bounded by sessionTimeout
SessionAccepted(x) ==
  /\ listener.server = "listening"
  /\ session[x].pc = "pending"
  /\ session' = [session EXCEPT ![x].pc = "awaitReady"]
  /\ UNCHANGED <<connections, handled, connectionEvents, hasHandler, listener>>
  /\ UNCHANGED nonListenVars

\* create-server.ts 88-93, 96: session.ready rejects before the timeout; logged
SessionReadyFails(x) ==
  /\ session[x].pc = "awaitReady"
  /\ session' = [session EXCEPT ![x].pc = "readyFailed", ![x].ready = "failed"]
  /\ UNCHANGED <<connections, handled, connectionEvents, hasHandler, listener>>
  /\ UNCHANGED nonListenVars

\* create-server.ts 84-96: sessionTimeout elapses first; the rejection of pTimeout
\* is logged
SessionTimesOut(x) ==
  /\ session[x].pc = "awaitReady"
  /\ session' = [session EXCEPT ![x].pc = "timedOut", ![x].timedOut = TRUE]
  /\ UNCHANGED <<connections, handled, connectionEvents, hasHandler, listener>>
  /\ UNCHANGED nonListenVars

\* the session emitted whenever it becomes ready
lateReady_Emits(r, outcome) ==
  IF outcome = "ready"
    THEN [r EXCEPT !.ready = "ready", !.emitted = @ + 1, !.pc = "readAuth"]
    ELSE [r EXCEPT !.ready = outcome]

\* create-server.ts 84-96: session.ready settles after pTimeout has rejected;
\* nothing is waiting for it any more
lateReady(r, outcome) == [r EXCEPT !.ready = outcome]

LateReady(x) ==
  /\ session[x].pc = "timedOut"
  /\ session[x].ready = "pending"
  /\ \E outcome \in {"ready", "failed"} :
       session' = [session EXCEPT ![x] = lateReady(@, outcome)]
  /\ UNCHANGED <<connections, handled, connectionEvents, hasHandler, listener>>
  /\ UNCHANGED nonListenVars

\* create-server.ts 88-91, listener.ts 237-239, 97-102: session.ready resolves in
\* time and the server emits 'session'; onSession takes the reader of the incoming
\* streams and reads the first one
SessionEmitted(x) ==
  /\ session[x].pc = "awaitReady"
  /\ session' = [session EXCEPT ![x].pc = "readAuth", ![x].ready = "ready",
                                 ![x].emitted = @ + 1]
  /\ UNCHANGED <<connections, handled, connectionEvents, hasHandler, listener>>
  /\ UNCHANGED nonListenVars

\* listener.ts 102-127: the authentication stream arrives, secureInbound starts
AuthStreamArrives(x) ==
  /\ session[x].pc = "readAuth"
  /\ session' = [session EXCEPT ![x].pc = "secureInbound"]
  /\ UNCHANGED <<connections, handled, connectionEvents, hasHandler, listener>>
  /\ UNCHANGED nonListenVars

\* listener.ts 104-106: the incoming streams end first; onSession returns
IncomingStreamsEnd(x) ==
  /\ session[x].pc = "readAuth"
  /\ session' = [session EXCEPT ![x].pc = "noAuthStream"]
  /\ UNCHANGED <<connections, handled, connectionEvents, hasHandler, listener>>
  /\ UNCHANGED nonListenVars

\* listener.ts 240-243: onSession rejected; the handler of listen closes the session
onSessionRejected(r, pc) == [sessionClose(r, "plain", 0, "none") EXCEPT !.pc = pc]

\* listener.ts 102, 240-243: reading the first incoming stream rejects
AuthReadFails(x) ==
  /\ session[x].pc = "readAuth"
  /\ session' = [session EXCEPT ![x] = onSessionRejected(@, "readFailed")]
  /\ UNCHANGED <<connections, handled, connectionEvents, hasHandler, listener>>
  /\ UNCHANGED nonListenVars

\* the rejection surfaced as the listener's 'error'
secureInboundFails_ListenerError(x) ==
  /\ session' = [session EXCEPT ![x] = onSessionRejected(@, "handshakeFailed")]
  /\ listener' = [listener EXCEPT !.errorEvents = @ + 1]
  /\ UNCHANGED <<connections, handled, connectionEvents, hasHandler>>

\* listener.ts 127, 240-243: secureInbound rejects, outside the try block
secureInboundFails(x) ==
  /\ session' = [session EXCEPT ![x] = onSessionRejected(@, "handshakeFailed")]
  /\ UNCHANGED <<connections, handled, connectionEvents, hasHandler, listener>>

SecureInboundFails(x) ==
  /\ session[x].pc = "secureInbound"
  /\ secureInboundFails(x)
  /\ UNCHANGED nonListenVars

\* options that leave encryption to the upgrader
upgradeInboundOptions_Encrypting(x) ==
  [skipEncryption |-> FALSE, skipProtection |-> TRUE, muxerFactory |-> x]

\* listener.ts 156-162: the options of upgradeInbound; the factory is built on the
\* session onSession was called with and on the reader taken from it
upgradeInboundOptions(x) ==
  [skipEncryption |-> TRUE, skipProtection |-> TRUE, muxerFactory |-> x]

\* listener.ts 127-162: secureInbound resolves; upgradeInbound is called
SecureInboundDone(x) ==
  /\ session[x].pc = "secureInbound"
  /\ session' = [session EXCEPT ![x].pc = "upgradeInbound",
                                 ![x].authenticated = TRUE,
                                 ![x].upgrades = @ + 1,
                                 ![x].upgradeOptions = upgradeInboundOptions(x)]
  /\ UNCHANGED <<connections, handled, connectionEvents, hasHandler, listener>>
  /\ UNCHANGED nonListenVars

\* a catch block closing the session without code or reason
onSessionCatch_Plain(r, pc) == [sessionClose(r, "plain", 0, "none") EXCEPT !.pc = pc]

\* listener.ts 178-183: the catch block of onSession
onSessionCatch(r, pc) == [sessionClose(r, "coded", 500, "err.message") EXCEPT !.pc = pc]

\* the connection tracked before the upgrade's outcome is known
upgradeInboundFails_Tracked(x) ==
  /\ session' = [session EXCEPT ![x] = onSessionCatch(@, "upgradeFailed")]
  /\ connections' = Append(connections, x)
  /\ UNCHANGED <<handled, connectionEvents, hasHandler, listener>>

\* listener.ts 156, 178-183: upgradeInbound rejects
upgradeInboundFails(x) ==
  /\ session' = [session EXCEPT ![x] = onSessionCatch(@, "upgradeFailed")]
  /\ UNCHANGED <<connections, handled, connectionEvents, hasHandler, listener>>

UpgradeInboundFails(x) ==
  /\ session[x].pc = "upgradeInbound"
  /\ upgradeInboundFails(x)
  /\ UNCHANGED nonListenVars

\* listener.ts 156-177: upgradeInbound resolves; the connection is tracked, given
\* to the handler and announced
UpgradeInboundDone(x) ==
  /\ session[x].pc = "upgradeInbound"
  /\ session' = [session EXCEPT ![x].pc = "connected"]
  /\ connections' = Append(connections, x)
  /\ handled' = [handled EXCEPT ![x] = IF hasHandler THEN @ + 1 ELSE @]
  /\ connectionEvents' = [connectionEvents EXCEPT ![x] = @ + 1]
  /\ UNCHANGED <<hasHandler, listener>>
  /\ UNCHANGED nonListenVars

\* listener.ts 169-183: as above, but the handler throws: the catch block closes the
\* session of the connection just tracked, and no event is dispatched
UpgradeInboundDoneHandlerThrows(x) ==
  /\ session[x].pc = "upgradeInbound"
  /\ hasHandler
  /\ session' = [session EXCEPT ![x] = onSessionCatch(@, "handlerThrew")]
  /\ connections' = Append(connections, x)
  /\ handled' = [handled EXCEPT ![x] = @ + 1]
  /\ UNCHANGED <<connectionEvents, hasHandler, listener>>
  /\ UNCHANGED nonListenVars

\* listener.ts 259-262: close() before listen(): there is no server, close returns
ListenerCloseNotStarted ==
  /\ listener.closePc = "idle"
  /\ listener.server = "none"
  /\ listener' = [listener EXCEPT !.closePc = "returned"]
  /\ UNCHANGED <<session, connections, handled, connectionEvents, hasHandler>>
  /\ UNCHANGED nonListenVars

\* the connections tracked by this.connections
Tracked == {connections[i] : i \in 1..Len(connections)}

\* listener.ts 59-61: attemptClose calls conn.close()
attemptClose(r) == [r EXCEPT !.closeAttempt = "pending", !.attempts = @ + 1]

\* listener.ts 264-267: close() maps attemptClose over this.connections and awaits
\* all of them
ListenerClose ==
  /\ listener.closePc = "idle"
  /\ listener.server # "none"
  /\ listener' = [listener EXCEPT !.closePc = "closing", !.closing = Tracked]
  /\ session' = [x \in Sessions |->
                   IF x \in Tracked THEN attemptClose(session[x]) ELSE session[x]]
  /\ UNCHANGED <<connections, handled, connectionEvents, hasHandler>>
  /\ UNCHANGED nonListenVars

\* listener.ts 61, 131-136: conn.close() resolves, having closed the session
ConnCloseSettles(x) ==
  /\ session[x].closeAttempt = "pending"
  /\ session' = [session EXCEPT
                   ![x] = [sessionClose(@, "plain", 0, "none") EXCEPT !.closeAttempt = "settled"]]
  /\ UNCHANGED <<connections, handled, connectionEvents, hasHandler, listener>>
  /\ UNCHANGED nonListenVars

\* the rejection of conn.close() escaping attemptClose: Promise.all rejects and so
\* does close()
connCloseFails_Uncaught(x) ==
  /\ session' = [session EXCEPT ![x].closeAttempt = "failed"]
  /\ listener' = [listener EXCEPT !.closePc = "rejected"]

\* listener.ts 59-65: conn.close() rejects; attemptClose logs the error and resolves
connCloseFails(x) ==
  /\ session' = [session EXCEPT ![x].closeAttempt = "failed"]
  /\ UNCHANGED listener

ConnCloseFails(x) ==
  /\ session[x].closeAttempt = "pending"
  /\ connCloseFails(x)
  /\ UNCHANGED <<connections, handled, connectionEvents, hasHandler>>
  /\ UNCHANGED nonListenVars

\* listener.ts 265-270, create-server.ts 34-39: every attemptClose has resolved;
\* the server is stopped and close() resolves
ListenerCloseStops ==
  /\ listener.closePc = "closing"
  /\ \A x \in listener.closing : session[x].closeAttempt \in {"settled", "failed"}
  /\ listener' = [listener EXCEPT !.closePc = "done", !.server = "stopped",
                                   !.stopCalls = @ + 1]
  /\ UNCHANGED <<session, connections, handled, connectionEvents, hasHandler>>
  /\ UNCHANGED nonListenVars

\* create-server.ts 38-43, listener.ts 245-248: the native server has closed;
\* 'close' is emitted and the listener dispatches it
ServerClosed ==
  /\ listener.server = "stopped"
  /\ listener.nativeClosed = "no"
  /\ listener' = [listener EXCEPT !.nativeClosed = "closed", !.closeEvents = @ + 1,
                                   !.phase = "Closed"]
  /\ UNCHANGED <<session, connections, handled, connectionEvents, hasHandler>>
  /\ UNCHANGED nonListenVars

\* create-server.ts 44-46, listener.ts 233-236: server.closed rejects; 'error' is
\* dispatched
ServerCloseFails ==
  /\ listener.server = "stopped"
  /\ listener.nativeClosed = "no"
  /\ listener' = [listener EXCEPT !.nativeClosed = "failed", !.errorEvents = @ + 1,
                                   !.phase = "Error"]
  /\ UNCHANGED <<session, connections, handled, connectionEvents, hasHandler>>
  /\ UNCHANGED nonListenVars

ListenNext ==
  \/ Listen
  \/ ServerListening
  \/ ServerStartFails
  \/ SessionLoopFails
  \/ ServerClosed
  \/ ServerCloseFails
  \/ ListenerCloseNotStarted
  \/ ListenerClose
  \/ ListenerCloseStops
  \/ \E x \in Sessions :
    \/ SessionAccepted(x)
    \/ SessionReadyFails(x)
    \/ SessionTimesOut(x)
    \/ LateReady(x)
    \/ ConnCloseSettles(x)
    \/ ConnCloseFails(x)
    \/ SessionEmitted(x)
    \/ AuthStreamArrives(x)
    \/ IncomingStreamsEnd(x)
    \/ AuthReadFails(x)
    \/ SecureInboundFails(x)
    \/ SecureInboundDone(x)
    \/ UpgradeInboundFails(x)
    \/ UpgradeInboundDone(x)
    \/ UpgradeInboundDoneHandlerThrows(x)

----------------------------------------------------------------------------
(* The muxer's state machine *)

Roles == {"dialer", "listener"}

\* the authentication stream of the session: the first stream the listener read
\* from the incoming sequence (listener.ts 102), the first one the dialer created
\* (index.ts 195)
authStream(role) ==
  IF role = "listener" THEN [origin |-> "incoming", seq |-> 1]
  ELSE [origin |-> "created", seq |-> 1]

\* a reader that starts at the head of the incoming sequence on both roles
readerPosition_FromStart(role) == 0

\* streams already read from the reader the muxer is given: the listener hands over
\* the reader it read the authentication stream from (listener.ts 98-102, 159), the
\* dialer a new one (index.ts 185)
readerPosition(role) == IF role = "listener" THEN 1 ELSE 0

\* streams the session had created before the muxer: the dialer's authentication stream
createdBefore(role) == IF role = "dialer" THEN 1 ELSE 0

\* the abort branch throwing without closing the session
createStreamMuxer_NoClose(aborted) == [returned |-> ~aborted, wtClosed |-> FALSE]

\* muxer.ts 22-92: createStreamMuxer starts the inbound loop, builds the muxer and
\* then tests init.signal: aborted, it closes the session and throws AbortError
createStreamMuxer(aborted) == [returned |-> ~aborted, wtClosed |-> aborted]

DefaultMaxInboundStreams == 1000    \* index.ts 115
ListenerMaxInboundStreams == 1000   \* listener.ts 160

\* the init of the transport: with or without maxInboundStreams
NoTransportInit == [given |-> FALSE, maxInboundStreams |-> 0]
TransportInits == {NoTransportInit, [given |-> TRUE, maxInboundStreams |-> maxInboundStreams]}

\* index.ts 111-117: this.config.maxInboundStreams
transportConfig(init) ==
  IF init.given THEN init.maxInboundStreams ELSE DefaultMaxInboundStreams

\* the config webtransportMuxer is given: this.config on dial (index.ts 186), a
\* literal on the listener (listener.ts 159-161)
muxerConfig(role, init) ==
  IF role = "listener" THEN ListenerMaxInboundStreams ELSE transportConfig(init)

\* the muxer variable after createStreamMuxer(init) on a session of the given role
newMuxer(role, aborted, init) ==
  [ role |-> role,
    given |-> init.given,                          \* the transport was given a limit
    configured |-> transportConfig(init),          \* the transport's maxInboundStreams
    limit |-> muxerConfig(role, init),             \* config.maxInboundStreams of the muxer
    aborted |-> aborted,                           \* init?.signal?.aborted === true
    returned |-> createStreamMuxer(aborted).returned,  \* a muxer object was returned
    taken |-> readerPosition(role),                \* streams read from the incoming reader
    created |-> createdBefore(role) ]              \* createBidirectionalStream calls

\* no muxer: the value of the muxer's variables under the other specifications
MuxOff ==
  /\ stream = <<>>
  /\ activeStreams = <<>>
  /\ streamIDCounter = 0
  /\ loopPc = "reading"
  /\ wtClosed = FALSE
  /\ initDirection = "undefined"
  /\ muxer = newMuxer("dialer", FALSE, [given |-> TRUE, maxInboundStreams |-> maxInboundStreams])

\* muxer.ts 17-25: a muxer just returned by createStreamMuxer, created without a
\* direction and without an aborted signal on a dialed session
MuxIdle ==
  /\ stream = [s \in Streams |-> NoStream]
  /\ activeStreams = <<>>
  /\ streamIDCounter = 0
  /\ loopPc = "reading"
  /\ wtClosed = FALSE
  /\ initDirection = "undefined"
  /\ muxer = newMuxer("dialer", FALSE, [given |-> TRUE, maxInboundStreams |-> maxInboundStreams])

\* no call of isSubset: the value of its variables under the other specifications
SubsetIdle ==
  /\ set = <<>>
  /\ maybeSubset = <<>>
  /\ subsetPc = "input"
  /\ subsetResult = FALSE


InitDirections == {"undefined", "inbound", "outbound"}

MuxInit ==
  /\ stream = [s \in Streams |-> NoStream]
  /\ activeStreams = <<>>
  /\ streamIDCounter = 0
  /\ loopPc = "reading"
  /\ initDirection \in InitDirections
  /\ \E role \in Roles, aborted \in BOOLEAN, init \in TransportInits :
       /\ muxer = newMuxer(role, aborted, init)
       /\ wtClosed = createStreamMuxer(aborted).wtClosed

H(s) == [str |-> stream[s], act |-> activeStreams]

Put(s, h) ==
  /\ stream' = [stream EXCEPT ![s] = h.str]
  /\ activeStreams' = h.act

SetStream(s, r) ==
  /\ stream' = [stream EXCEPT ![s] = r]
  /\ UNCHANGED activeStreams

UnchangedMuxRest == UNCHANGED <<streamIDCounter, loopPc, wtClosed, initDirection, muxer>>

Taken == {s \in Streams : stream[s].st # "absent"}

\* native streams are numbered in the order the muxer meets them
nextSlot == Cardinality(Taken) + 1

IsOpen(s) == stream[s].st = "open"

\* the inbound streams in the active set
inboundOpen == Cardinality({i \in DOMAIN activeStreams : stream[activeStreams[i]].inbound})

\* the admission test letting one stream too many in
limitReached_OffByOne(act) == Len(act) > muxer.limit

\* muxer.ts 44: the admission test of the inbound loop
limitReached(act) == Len(act) >= muxer.limit

\* an id taken without advancing the counter
nextStreamId_NoIncrement(counter) == [id |-> String(counter), counter |-> counter]

\* muxer.ts 53, 67: String(streamIDCounter++)
nextStreamId(counter) == [id |-> String(counter), counter |-> counter + 1]

\* the next stream of the incoming sequence, as reader.read() yields it: the
\* halves of a stream read after the session was closed are errored
nextIncoming ==
  [NoStream EXCEPT !.inbound = TRUE,
                   !.native = [origin |-> "incoming", seq |-> muxer.taken + 1],
                   !.seenActive = Len(activeStreams),
                   !.seenInbound = inboundOpen,
                   !.wNative = IF wtClosed THEN "errored" ELSE "open",
                   !.rNative = IF wtClosed THEN "errored" ELSE "open"]

\* muxer.ts 30-51: reader.read() yields a stream while the limit is reached
InboundReject ==
  /\ loopPc = "reading"
  /\ nextSlot \in Streams
  /\ limitReached(activeStreams)
  /\ stream' = [stream EXCEPT ![nextSlot] =
       [nextIncoming EXCEPT !.st = "rejected",
                            !.closes = 1, !.wNative = IF @ = "open" THEN "closing" ELSE @,
                            !.cancels = 1, !.rNative = IF @ = "open" THEN "cancelled" ELSE @]]
  /\ muxer' = [muxer EXCEPT !.taken = @ + 1]
  /\ UNCHANGED <<activeStreams, streamIDCounter, loopPc, wtClosed, initDirection>>
  /\ UNCHANGED nonMuxVars

\* muxer.ts 30-53, 96-99: reader.read() yields a stream below the limit; it gets its
\* id and the loop awaits writer.ready inside webtransportBiDiStreamToStream
InboundAdmit ==
  /\ loopPc = "reading"
  /\ nextSlot \in Streams
  /\ ~limitReached(activeStreams)
  /\ stream' = [stream EXCEPT ![nextSlot] =
       [nextIncoming EXCEPT !.st = "wrapping", !.direction = "inbound",
                            !.id = nextStreamId(streamIDCounter).id]]
  /\ streamIDCounter' = nextStreamId(streamIDCounter).counter
  /\ loopPc' = "wrapping"
  /\ muxer' = [muxer EXCEPT !.taken = @ + 1]
  /\ UNCHANGED <<activeStreams, wtClosed, initDirection>>
  /\ UNCHANGED nonMuxVars

\* muxer.ts 32-40: the inbound sequence is done, or yields undefined
InboundEnds ==
  /\ loopPc = "reading"
  /\ loopPc' = "ended"
  /\ UNCHANGED <<stream, activeStreams, streamIDCounter, wtClosed, initDirection, muxer>>
  /\ UNCHANGED nonMuxVars

\* muxer.ts 63-67, 96-99: newStream after createBidirectionalStream resolved; the
\* stream gets its id and newStream awaits writer.ready
NewStream ==
  /\ muxer.returned
  /\ ~wtClosed
  /\ nextSlot \in Streams
  /\ muxer' = [muxer EXCEPT !.created = @ + 1]
  /\ stream' = [stream EXCEPT ![nextSlot] =
       [NoStream EXCEPT !.st = "wrapping",
                        !.native = [origin |-> "created", seq |-> muxer.created + 1],
                        !.direction = IF initDirection = "undefined" THEN "outbound"
                                      ELSE initDirection,
                        !.id = nextStreamId(streamIDCounter).id]]
  /\ streamIDCounter' = nextStreamId(streamIDCounter).counter
  /\ UNCHANGED <<activeStreams, loopPc, wtClosed, initDirection>>
  /\ UNCHANGED nonMuxVars

\* muxer.ts 99: writer.ready resolves and the stream is wrapped and pushed, its
\* native halves open
WriterReady(s) ==
  /\ stream[s].st = "wrapping"
  /\ stream[s].wNative # "errored"     \* the ready promise of an errored writable rejects
  /\ Put(s, wrapDone(s, H(s), stream[s].rNative, stream[s].wNative))
  /\ loopPc' = IF stream[s].inbound THEN "reading" ELSE loopPc
  /\ UNCHANGED <<streamIDCounter, wtClosed, initDirection, muxer>>
  /\ UNCHANGED nonMuxVars

\* muxer.ts 99: as above, but by the time the continuation of writer.ready runs
\* the peer has finished or reset its side, or the runtime has errored both halves
WriterReadySettled(s) ==
  /\ stream[s].st = "wrapping"
  /\ stream[s].wNative # "errored"
  /\ \E r \in {"ended", "errored"}, w \in {"open", "errored"} :
       Put(s, wrapDone(s, H(s), r, w))
  /\ loopPc' = IF stream[s].inbound THEN "reading" ELSE loopPc
  /\ UNCHANGED <<streamIDCounter, wtClosed, initDirection, muxer>>
  /\ UNCHANGED nonMuxVars

\* muxer.ts 99: writer.ready rejects; newStream rejects, or the inbound loop's
\* promise rejects and the loop is gone (muxer.ts 27, 53)
WriterReadyFails(s) ==
  /\ stream[s].st = "wrapping"
  /\ stream' = [stream EXCEPT ![s].st = "failed"]
  /\ loopPc' = IF stream[s].inbound THEN "crashed" ELSE loopPc
  /\ UNCHANGED <<activeStreams, streamIDCounter, wtClosed, initDirection, muxer>>
  /\ UNCHANGED nonMuxVars

\* muxer.close as its doc comment has it: every tracked stream closed first
muxerClose_ClosesStreams ==
  /\ wtClosed' = TRUE
  /\ stream' = [s \in Streams |->
                  IF stream[s].st = "open"
                  THEN close(s, [str |-> stream[s], act |-> activeStreams], FALSE).str
                  ELSE stream[s]]
  /\ activeStreams' = <<>>
  /\ UNCHANGED <<streamIDCounter, loopPc, initDirection, muxer>>

\* muxer.ts 76-81: muxer.close calls wt.close() and nothing else
muxerClose ==
  /\ wtClosed' = TRUE
  /\ UNCHANGED <<stream, activeStreams, streamIDCounter, loopPc, initDirection, muxer>>

MuxerClose ==
  /\ muxer.returned
  /\ muxerClose
  /\ UNCHANGED nonMuxVars

(* the stream API, called by whoever holds the stream *)

CloseRead(s) ==
  /\ IsOpen(s)
  /\ \E resetSeen \in BOOLEAN : Put(s, closeRead(s, H(s), resetSeen))
  /\ UnchangedMuxRest /\ UNCHANGED nonMuxVars

CloseWrite(s) ==
  /\ IsOpen(s)
  /\ \E resetSeen \in BOOLEAN : Put(s, closeWrite(s, H(s), resetSeen))
  /\ UnchangedMuxRest /\ UNCHANGED nonMuxVars

Close(s) ==
  /\ IsOpen(s)
  /\ \E resetSeen \in BOOLEAN : Put(s, close(s, H(s), resetSeen))
  /\ UnchangedMuxRest /\ UNCHANGED nonMuxVars

Abort(s) ==
  /\ IsOpen(s)
  /\ \E resetSeen \in BOOLEAN : Put(s, abort(s, H(s), resetSeen))
  /\ UnchangedMuxRest /\ UNCHANGED nonMuxVars

Reset(s) ==
  /\ IsOpen(s)
  /\ \E resetSeen \in BOOLEAN : Put(s, reset(s, H(s), resetSeen))
  /\ UnchangedMuxRest /\ UNCHANGED nonMuxVars

(* promise handlers and observers of one stream *)

\* muxer.ts 161-165: the catch handler of reader.cancel() on RESET_STREAM
CancelRejected(s) ==
  /\ IsOpen(s)
  /\ stream[s].cancelP = "reset"
  /\ SetStream(s, [stream[s] EXCEPT !.cancelP = "none", !.writerClosed = TRUE])
  /\ UnchangedMuxRest /\ UNCHANGED nonMuxVars

\* muxer.ts 175-179: the catch handler of writer.close() on RESET_STREAM
CloseRejected(s) ==
  /\ IsOpen(s)
  /\ stream[s].closeP = "reset"
  /\ SetStream(s, [stream[s] EXCEPT !.closeP = "handled", !.readerClosed = TRUE])
  /\ UnchangedMuxRest /\ UNCHANGED nonMuxVars

WriterClosedObserver(s) ==
  /\ IsOpen(s)
  /\ ~stream[s].obsW
  /\ stream[s].wNative \in {"closed", "errored"}
  /\ Put(s, writerClosedObserver(s, H(s)))
  /\ UnchangedMuxRest /\ UNCHANGED nonMuxVars

ReaderClosedObserver(s) ==
  /\ IsOpen(s)
  /\ ~stream[s].obsR
  /\ stream[s].rNative \in {"ended", "cancelled", "errored"}
  /\ Put(s, readerClosedObserver(s, H(s)))
  /\ UnchangedMuxRest /\ UNCHANGED nonMuxVars

(* the source generator, muxer.ts 193-206 *)

\* reader.read() reports done: the peer finished, or the reader was cancelled
sourceEnd(s, h) ==
  LET h1 == [h EXCEPT !.str.readerClosed = TRUE, !.str.srcDone = TRUE, !.str.readDone = TRUE]
  IN IF h1.str.writerClosed THEN cleanupStreamFromActiveStreams(s, h1) ELSE h1

SourceEnds(s) ==
  /\ IsOpen(s)
  /\ ~stream[s].srcDone
  /\ stream[s].rNative \in {"ended", "cancelled"}
  /\ Put(s, sourceEnd(s, H(s)))
  /\ UnchangedMuxRest /\ UNCHANGED nonMuxVars

\* reader.read() rejects: the generator throws and touches nothing
SourceThrows(s) ==
  /\ IsOpen(s)
  /\ ~stream[s].srcDone
  /\ stream[s].rNative = "errored"
  /\ SetStream(s, [stream[s] EXCEPT !.srcDone = TRUE])
  /\ UnchangedMuxRest /\ UNCHANGED nonMuxVars

(* the sink, muxer.ts 207-225 *)

sinkCall(r) ==
  IF r.sinkSunk
  THEN [r EXCEPT !.sinkThrew = TRUE]
  ELSE [r EXCEPT !.sinkStarts = @ + 1, !.sinkSunk = TRUE, !.sinkPc = "running"]

SinkCall(s) ==
  /\ IsOpen(s)
  /\ SetStream(s, sinkCall(stream[s]))
  /\ UnchangedMuxRest /\ UNCHANGED nonMuxVars

\* closeWrite at the end of the try block instead of in a finally
sinkFinally_OnSuccessOnly(s, h, outcome, resetSeen) ==
  IF outcome = "resolved"
  THEN [closeWrite(s, h, resetSeen) EXCEPT !.str.sinkPc = outcome]
  ELSE [h EXCEPT !.str.sinkPc = outcome]

\* the finally block, after which the sink's promise settles as `outcome`
sinkFinally(s, h, outcome, resetSeen) ==
  [closeWrite(s, h, resetSeen) EXCEPT !.str.sinkPc = outcome]

\* muxer.ts 213-221: one chunk of the input is written; a write on a writable that
\* is no longer open rejects and ends the loop
sinkWrite(s, h, resetSeen) ==
  LET r == h.str
      issued == [r EXCEPT !.lateWrite = @ \/ (r.closes + r.aborts > 0)]
      h1 == [h EXCEPT !.str = issued]
  IN IF r.wNative = "open" THEN h1 ELSE sinkFinally(s, h1, "rejected", resetSeen)

SinkWrite(s) ==
  /\ IsOpen(s)
  /\ stream[s].sinkPc = "running"
  /\ \E resetSeen \in BOOLEAN : Put(s, sinkWrite(s, H(s), resetSeen))
  /\ UnchangedMuxRest /\ UNCHANGED nonMuxVars

\* the input sequence is exhausted
SinkInputEnds(s) ==
  /\ IsOpen(s)
  /\ stream[s].sinkPc = "running"
  /\ \E resetSeen \in BOOLEAN : Put(s, sinkFinally(s, H(s), "resolved", resetSeen))
  /\ UnchangedMuxRest /\ UNCHANGED nonMuxVars

\* the input sequence throws
SinkInputThrows(s) ==
  /\ IsOpen(s)
  /\ stream[s].sinkPc = "running"
  /\ \E resetSeen \in BOOLEAN : Put(s, sinkFinally(s, H(s), "rejected", resetSeen))
  /\ UnchangedMuxRest /\ UNCHANGED nonMuxVars

(* the native halves of one stream, driven by the runtime and the peer *)

\* the graceful close started by writer.close() completes
NativeCloseDone(s) ==
  /\ IsOpen(s)
  /\ stream[s].wNative = "closing"
  /\ SetStream(s, [stream[s] EXCEPT !.wNative = "closed"])
  /\ UnchangedMuxRest /\ UNCHANGED nonMuxVars

\* the peer stops reading (STOP_SENDING / reset): the writable errors; a close in
\* progress rejects, with or without RESET_STREAM in its text
PeerStopsReading(s) ==
  /\ IsOpen(s)
  /\ stream[s].wNative \in {"open", "closing"}
  /\ \E resetSeen \in BOOLEAN :
       SetStream(s, [stream[s] EXCEPT
         !.wNative = "errored",
         !.closeP = IF stream[s].wNative = "closing" /\ resetSeen THEN "reset" ELSE @])
  /\ UnchangedMuxRest /\ UNCHANGED nonMuxVars

\* the peer finishes its side: the readable ends
PeerFinishes(s) ==
  /\ IsOpen(s)
  /\ stream[s].rNative = "open"
  /\ SetStream(s, [stream[s] EXCEPT !.rNative = "ended"])
  /\ UnchangedMuxRest /\ UNCHANGED nonMuxVars

\* the peer resets its side: the readable errors
PeerResets(s) ==
  /\ IsOpen(s)
  /\ stream[s].rNative = "open"
  /\ SetStream(s, [stream[s] EXCEPT !.rNative = "errored"])
  /\ UnchangedMuxRest /\ UNCHANGED nonMuxVars

(* Spec: the muxer with up to MaxStreams native streams.  Streams are opened,    *)
(* admitted or rejected in every interleaving; a wrapped stream is followed up  *)
(* to its finalization by close().                                              *)
MuxNext ==
  \/ InboundReject \/ InboundAdmit \/ InboundEnds \/ NewStream \/ MuxerClose
  \/ \E s \in Streams : WriterReady(s)
  \/ \E s \in Streams : WriterReadyFails(s)
  \/ \E s \in Streams : Close(s)

Init == MuxInit /\ SubsetIdle /\ DialIdle /\ ListenIdle /\ ParseIdle

Spec == Init /\ [][MuxNext]_vars

(* StreamSpec: the first stream of a muxer under every interleaving of its API, *)
(* its sink and source, its promise handlers and observers and its native       *)
(* halves, with a second stream opened and closed beside it.                    *)
Subjects == {1}
Bystanders == {2}

ArrivesBeside == nextSlot \in Subjects \cup Bystanders /\ InboundAdmit
OpensBeside == nextSlot \in Subjects \cup Bystanders /\ NewStream

StreamSpecNext ==
  \/ ArrivesBeside
  \/ OpensBeside
  \/ \E s \in Subjects \cup Bystanders : WriterReady(s)
  \/ \E s \in Bystanders : Close(s)
  \/ \E s \in Subjects : WriterReadyFails(s)
  \/ \E s \in Subjects : CloseRead(s)
  \/ \E s \in Subjects : CloseWrite(s)
  \/ \E s \in Subjects : Close(s)
  \/ \E s \in Subjects : Abort(s)
  \/ \E s \in Subjects : Reset(s)
  \/ \E s \in Subjects : CancelRejected(s)
  \/ \E s \in Subjects : CloseRejected(s)
  \/ \E s \in Subjects : WriterClosedObserver(s)
  \/ \E s \in Subjects : ReaderClosedObserver(s)
  \/ \E s \in Subjects : SourceEnds(s)
  \/ \E s \in Subjects : SourceThrows(s)
  \/ \E s \in Subjects : SinkCall(s)
  \/ \E s \in Subjects : SinkWrite(s)
  \/ \E s \in Subjects : SinkInputEnds(s)
  \/ \E s \in Subjects : SinkInputThrows(s)
  \/ \E s \in Subjects : NativeCloseDone(s)
  \/ \E s \in Subjects : PeerStopsReading(s)
  \/ \E s \in Subjects : PeerFinishes(s)
  \/ \E s \in Subjects : PeerResets(s)

StreamInit == MuxIdle /\ SubsetIdle /\ DialIdle /\ ListenIdle /\ ParseIdle

StreamSpec == StreamInit /\ [][StreamSpecNext]_vars

(* the native session closes *)

\* the peer closes the session, or the connection under it is lost
SessionClosedRemotely ==
  /\ muxer.returned
  /\ ~wtClosed
  /\ wtClosed' = TRUE
  /\ UNCHANGED <<stream, activeStreams, streamIDCounter, loopPc, initDirection, muxer>>
  /\ UNCHANGED nonMuxVars

\* the runtime errors the halves of a stream of the closed session that have not
\* settled; a graceful close in progress rejects, with or without RESET_STREAM
\* in its text
SessionCloseCascade(s) ==
  /\ wtClosed
  /\ stream[s].st \in {"wrapping", "open"}
  /\ stream[s].wNative \in {"open", "closing"} \/ stream[s].rNative = "open"
  /\ \E resetSeen \in BOOLEAN :
       SetStream(s, [stream[s] EXCEPT
         !.wNative = IF @ \in {"open", "closing"} THEN "errored" ELSE @,
         !.rNative = IF @ = "open" THEN "errored" ELSE @,
         !.closeP = IF stream[s].st = "open" /\ stream[s].wNative = "closing" /\ resetSeen
                    THEN "reset" ELSE @])
  /\ UnchangedMuxRest /\ UNCHANGED nonMuxVars

(* CloseSpec: two streams of one session, used through closeRead and closeWrite *)
(* and by the peer, and the session closed locally or remotely at any moment.   *)
(* Fairness: the runtime settles the halves of the streams of a closed session, *)
(* and a continuation waiting on a settled closed-promise is run.               *)
CloseSpecNext ==
  \/ ArrivesBeside
  \/ OpensBeside
  \/ MuxerClose
  \/ SessionClosedRemotely
  \/ \E s \in Subjects \cup Bystanders :
       \/ WriterReady(s)
       \/ WriterReadyFails(s)
       \/ SessionCloseCascade(s)
       \/ WriterClosedObserver(s)
       \/ ReaderClosedObserver(s)
  \/ \E s \in Subjects :
       \/ CloseRead(s)
       \/ CloseWrite(s)
       \/ CancelRejected(s)
       \/ CloseRejected(s)
       \/ NativeCloseDone(s)
       \/ PeerStopsReading(s)
       \/ PeerFinishes(s)

CloseSpecFairness ==
  \A s \in Subjects \cup Bystanders :
    /\ WF_vars(SessionCloseCascade(s))
    /\ WF_vars(WriterClosedObserver(s))
    /\ WF_vars(ReaderClosedObserver(s))

CloseSpec == StreamInit /\ [][CloseSpecNext]_vars /\ CloseSpecFairness

(* WrapSpec: the registration of two streams, inbound or outbound, interleaved   *)
(* with their closed-observers; a native half may be settled before the stream  *)
(* is pushed.                                                                   *)
WrapSpecNext ==
  \/ ArrivesBeside
  \/ OpensBeside
  \/ \E s \in Subjects \cup Bystanders :
       \/ WriterReady(s)
       \/ WriterReadySettled(s)
       \/ WriterReadyFails(s)
       \/ WriterClosedObserver(s)
       \/ ReaderClosedObserver(s)
       \/ PeerFinishes(s)
       \/ PeerStopsReading(s)
       \/ Close(s)

WrapSpec == StreamInit /\ [][WrapSpecNext]_vars

----------------------------------------------------------------------------
(* isSubset applied to every pair of bounded lists *)

SubsetInit ==
  /\ set \in ByteArrayLists
  /\ maybeSubset \in ByteArrayLists
  /\ subsetPc = "input"
  /\ subsetResult = FALSE
  /\ MuxOff /\ DialIdle /\ ListenIdle /\ ParseIdle

CallIsSubset ==
  /\ subsetPc = "input"
  /\ subsetResult' = isSubset(set, maybeSubset)
  /\ subsetPc' = "done"
  /\ UNCHANGED <<set, maybeSubset>>
  /\ UNCHANGED nonSubsetVars

SubsetNext == CallIsSubset

SubsetSpec == SubsetInit /\ [][SubsetNext]_vars


----------------------------------------------------------------------------
(* one dial for every dialed list of certhashes *)

DialSpecInit == DialInit /\ SubsetIdle /\ MuxOff /\ ListenIdle /\ ParseIdle

DialSpec == DialSpecInit /\ [][DialNext]_vars

(* the listener's accept path for up to MaxSessions sessions *)

ListenSpecInit == ListenInit /\ SubsetIdle /\ MuxOff /\ DialIdle /\ ParseIdle

ListenSpec == ListenSpecInit /\ [][ListenNext]_vars

(* parseMultiaddr applied to every address of up to MaxParts components *)

ParseSpecInit == ParseInit /\ SubsetIdle /\ MuxOff /\ DialIdle /\ ListenIdle

ParseSpec == ParseSpecInit /\ [][ParseNext]_vars

----------------------------------------------------------------------------
(* UpgradeSpec: one dial and a listener accepting one session, side by side;    *)
(* the listener is followed from listen() to the outcome of the session's       *)
(* upgrade.                                                                     *)
Accepted == {1}

UpgradeNext ==
  \/ DialNext
  \/ Listen
  \/ ServerListening
  \/ \E x \in Accepted :
       \/ SessionAccepted(x)
       \/ SessionEmitted(x)
       \/ AuthStreamArrives(x)
       \/ SecureInboundFails(x)
       \/ SecureInboundDone(x)
       \/ UpgradeInboundFails(x)
       \/ UpgradeInboundDone(x)

UpgradeSpecInit == DialInit /\ ListenInit /\ SubsetIdle /\ MuxOff /\ ParseIdle

UpgradeSpec == UpgradeSpecInit /\ [][UpgradeNext]_vars

----------------------------------------------------------------------------
(* C1: isSubset(set, maybeSubset) is true exactly when every byte array of  *)
(* maybeSubset equals (same length, same byte at every index) some byte     *)
(* array of set; so isSubset(set, []) is true and isSubset([], m) is false  *)
(* for every non-empty m.                                                   *)
C1_IsSubsetIffAllMembers ==
  subsetPc = "done" =>
    /\ subsetResult =
         (\A i \in DOMAIN maybeSubset : \E j \in DOMAIN set : set[j] = maybeSubset[i])
    /\ (maybeSubset = <<>> => subsetResult)
    /\ (set = <<>> /\ maybeSubset # <<>> => ~subsetResult)

\* a two-element subset found in a different order, and a rejected near miss
C1_Witness ==
  /\ subsetPc = "done"
  /\ subsetResult
  /\ Len(maybeSubset) = 2
  /\ Len(set) = 2
  /\ maybeSubset[1] = set[2]
  /\ maybeSubset[2] = set[1]
  /\ set[1] # set[2]

(* C2: dial gets as far as the upgrader, and returns a Connection, only if    *)
(* every certhash of the dialed address is among those the listener reported *)
(* in the handshake; when the handshake reported a set that misses one of     *)
(* them (or reported none), dial rejects with the subset error, the upgrader  *)
(* is never called and the native session is closed.                          *)
C2_DialOnlyIfCerthashesReported ==
  LET reported == reportedCerthashes(remoteExtensions)
      allReported == \A i \in DOMAIN certhashes :
                       \E j \in DOMAIN reported : reported[j] = certhashes[i]
  IN /\ dialPc \in {"upgrade", "resolved"} => remoteExtensions.got # "none" /\ allReported
     /\ remoteExtensions.got # "none" /\ ~allReported =>
          /\ dialPc = "rejected"
          /\ dialError = "notSubset"
          /\ upgraderCalls = 0
          /\ wtCloseCalls >= 1
          /\ wtState = "closed"

\* dialed {X}, reported {Y}, X # Y
C2_Witness ==
  /\ dialPc = "rejected"
  /\ dialError = "notSubset"
  /\ Len(certhashes) = 1
  /\ remoteExtensions.got = "list"
  /\ Len(remoteExtensions.hashes) = 1
  /\ wtState = "closed"

----------------------------------------------------------------------------
InActive(s) == \E i \in DOMAIN activeStreams : activeStreams[i] = s

Finalized(s) ==
  /\ ~InActive(s)
  /\ stream[s].timelineClose # 0
  /\ stream[s].streamEnds >= 1

(* C3: a Managed Stream is removed from the active set at most once, and only *)
(* with both its read-closed and write-closed flags true; onStreamEnd is      *)
(* notified at most once; under every interleaving of the stream API, the     *)
(* sink, the source and the closed-observers.                                *)
C3_RemovedOnceBothClosed ==
  \A s \in Streams :
    /\ stream[s].removals <= 1
    /\ stream[s].streamEnds <= 1
    /\ Cardinality({i \in DOMAIN activeStreams : activeStreams[i] = s}) <= 1
    /\ stream[s].removals >= 1 =>
         /\ stream[s].readerClosed
         /\ stream[s].writerClosed
         /\ ~InActive(s)

\* finalized by the two observers alone, the other stream still in the set
C3_Witness ==
  /\ stream[1].removals = 1
  /\ stream[1].obsW /\ stream[1].obsR
  /\ ~stream[1].readDone /\ ~stream[1].writeDone
  /\ activeStreams = <<2>>

(* C4: once closeRead (or the source's end-of-stream) and closeWrite (called   *)
(* directly or by the sink's finally) have both returned, in either order, the *)
(* stream is finalized: out of the active set, close time stamped, onStreamEnd *)
(* notified.                                                                   *)
C4_FinalizedAfterBothHalves ==
  \A s \in Streams :
    stream[s].readDone /\ stream[s].writeDone => Finalized(s)

\* the sink ran to completion, then the source saw the end of the stream
C4_Witness ==
  /\ stream[1].sinkPc = "resolved"
  /\ stream[1].srcDone
  /\ stream[1].readDone /\ stream[1].writeDone
  /\ stream[1].cancels = 0
  /\ ~stream[1].obsW /\ ~stream[1].obsR
  /\ Finalized(1)

(* C5: in every reachable stream state a second closeRead (closeWrite) right   *)
(* after the first changes nothing: flags, active set, close time, onStreamEnd *)
(* count and native cancel/close counts are those the first call left.         *)
C5_CloseHalfIdempotent ==
  \A s \in Streams :
    IsOpen(s) =>
      \A first \in BOOLEAN, second \in BOOLEAN :
        /\ closeRead(s, closeRead(s, H(s), first), second) = closeRead(s, H(s), first)
        /\ closeWrite(s, closeWrite(s, H(s), first), second) = closeWrite(s, H(s), first)

\* both halves were closed by the API on a stream whose peer had not closed anything
C5_Witness ==
  /\ stream[1].readDone /\ stream[1].writeDone
  /\ stream[1].cancels = 1 /\ stream[1].closes = 1
  /\ stream[1].rNative = "cancelled"
  /\ stream[1].removals = 1

(* C6: with maxInboundStreams = N, an inbound stream taken by the loop is       *)
(* rejected exactly when N inbound streams are open at that moment: the first  *)
(* N concurrently open inbound streams are admitted, the next one is torn down. *)
C6_RejectedIffInboundAtLimit ==
  \A s \in Streams :
    stream[s].inbound =>
      ((stream[s].st = "rejected") <=> (stream[s].seenInbound >= muxer.limit))

(* C7: only the first sink invocation runs; any later one throws 'sink already *)
(* called on stream'; and when the first invocation's promise settles, after   *)
(* its input ended, threw or a write failed, closeWrite has been performed.    *)
C7_SinkOnceThenWriteClosed ==
  \A s \in Streams :
    /\ stream[s].sinkStarts <= 1
    /\ stream[s].sinkThrew => stream[s].sinkSunk
    /\ stream[s].sinkSunk => sinkCall(stream[s]) = [stream[s] EXCEPT !.sinkThrew = TRUE]
    /\ stream[s].sinkPc \in {"resolved", "rejected"} =>
         /\ stream[s].writerClosed
         /\ stream[s].writeDone

\* the sink failed while the writable was still open, and a second call threw
C7_Witness ==
  /\ stream[1].sinkPc = "rejected"
  /\ stream[1].sinkThrew
  /\ stream[1].closes = 1
  /\ stream[1].aborts = 0
  /\ ~stream[1].obsW

(* C8: every dial that fails after the native session object was created      *)
(* rejects exactly once, and dial has closed the native session (wt.close())   *)
(* before the rejection is delivered.                                          *)
C8_SessionClosedBeforeRejection ==
  dialPc = "rejected" =>
    /\ dialRejections = 1
    /\ wtCloseCalls >= 1

(* C9: on the listen side, when authentication of an accepted session fails    *)
(* (the inbound handshake errors, or the incoming streams end before the       *)
(* authentication stream), the listener closes the native session with an      *)
(* explicit close code and reason.                                             *)
C9_AuthFailureClosedWithCode ==
  \A x \in Sessions :
    session[x].pc \in {"handshakeFailed", "noAuthStream"} =>
      /\ session[x].closed = "coded"
      /\ session[x].closeCode # 0
      /\ session[x].reason # "none"

(* C10: a session whose authentication or upgrade failed is never seen by the  *)
(* caller: its connection is not passed to the handler, no 'connection' event  *)
(* is dispatched for it and it is not among the tracked connections.           *)
C10_FailedSessionNotSurfaced ==
  \A x \in Sessions :
    session[x].pc \in {"handshakeFailed", "noAuthStream", "readFailed", "upgradeFailed"} =>
      /\ handled[x] = 0
      /\ connectionEvents[x] = 0
      /\ \A i \in DOMAIN connections : connections[i] # x

\* one session failed its upgrade while another one connected
C10_Witness ==
  \E x \in Sessions, y \in Sessions :
    /\ session[x].pc = "upgradeFailed"
    /\ session[x].closed = "coded"
    /\ session[y].pc = "connected"
    /\ connections = <<y>>
    /\ connectionEvents[y] = 1

(* C18: parseMultiaddr goes through the components left to right and throws    *)
(* exactly when a certhash, quic or webtransport component comes before both a *)
(* host and a udp port were seen, a second udp port comes, a host comes after  *)
(* a host or a port, or a component of another protocol comes; otherwise it    *)
(* returns the url https://host:port, the certhashes in address order and the  *)
(* peer id if the address has one.                                             *)
C18_ParseRejectsOrYieldsUrl ==
  LET hostBefore(i) == \E j \in 1..(i - 1) : ma[j].proto \in HostProtos
      portBefore(i) == \E j \in 1..(i - 1) : ma[j].proto = "udp"
      bad(i) ==
        \/ /\ ma[i].proto \in {"certhash", "quic", "webtransport"}
           /\ ~(hostBefore(i) /\ portBefore(i))
        \/ ma[i].proto = "udp" /\ portBefore(i)
        \/ ma[i].proto \in HostProtos /\ (hostBefore(i) \/ portBefore(i))
        \/ ma[i].proto \notin HostProtos \cup {"certhash", "quic", "webtransport", "udp", "p2p"}
      isCerthash(c) == c.proto = "certhash"
      isPeer(c) == c.proto = "p2p"
      hashes == SelectSeq(ma, isCerthash)
      peers == SelectSeq(ma, isPeer)
  IN parsePc = "done" =>
       /\ (parseResult.threw # "none") <=> (\E i \in DOMAIN ma : bad(i))
       /\ parseResult.threw = "none" =>
            /\ \E h \in DOMAIN ma, u \in DOMAIN ma :
                 /\ ma[h].proto \in HostProtos
                 /\ ma[u].proto = "udp"
                 /\ parseResult.url = "https://" \o ma[h].value \o ":" \o ma[u].value
            /\ Len(parseResult.certhashes) = Len(hashes)
            /\ \A i \in DOMAIN hashes :
                 parseResult.certhashes[i] = decodeCerthashStr(hashes[i].value)
            /\ parseResult.remotePeer =
                 IF peers = <<>> THEN "undefined"
                 ELSE peerIdFromString(peers[Len(peers)].value)

(* C19: an inbound stream taken by the loop is rejected exactly when the active *)
(* set, inbound and outbound streams together, holds at least                  *)
(* maxInboundStreams streams at that moment; a rejected stream has its write   *)
(* side closed and its read side cancelled, gets no id and is never in the     *)
(* active set nor surfaced; an admitted stream that was surfaced had been      *)
(* appended to the active set.                                                 *)
C19_RejectedIffActiveAtLimit ==
  \A s \in Streams :
    stream[s].inbound =>
      /\ (stream[s].st = "rejected") <=> (stream[s].seenActive >= muxer.limit)
      /\ stream[s].st = "rejected" =>
           /\ stream[s].closes = 1 /\ stream[s].cancels = 1
           /\ ~stream[s].surfaced
           /\ ~InActive(s) /\ stream[s].removals = 0
           /\ stream[s].id = ""
      /\ stream[s].st = "open" => stream[s].surfaced
      /\ stream[s].surfaced => InActive(s) \/ stream[s].removals = 1

\* an outbound and an inbound stream fill the active set, the next inbound is rejected
C19_Witness ==
  \E s \in Streams :
    /\ stream[s].st = "rejected"
    /\ stream[s].seenActive = muxer.limit
    /\ stream[s].seenInbound < muxer.limit
    /\ Len(activeStreams) = muxer.limit
    /\ \A i \in DOMAIN activeStreams :
         stream[activeStreams[i]].inbound => stream[activeStreams[i]].surfaced

(* C20: every stream returned by newStream has direction outbound, whatever    *)
(* options the muxer was created with, and was put in the active set before    *)
(* newStream resolved.                                                         *)
C20_NewStreamIsOutbound ==
  \A s \in Streams :
    ~stream[s].inbound /\ stream[s].st = "open" =>
      /\ stream[s].direction = "outbound"
      /\ InActive(s) \/ stream[s].removals = 1

(* C14: on both roles the stream the handshake ran on is never an application  *)
(* stream: no stream the muxer takes from the incoming sequence or creates for *)
(* newStream is the authentication stream, so it is never wrapped, in the      *)
(* active set, surfaced or returned; on the listener the inbound loop takes    *)
(* only streams that come after it in the incoming sequence; and the muxer     *)
(* never meets the same native stream twice.                                   *)
C14_AuthStreamNeverExposed ==
  /\ \A s \in Streams :
       stream[s].st # "absent" =>
         /\ stream[s].native # authStream(muxer.role)
         /\ stream[s].inbound /\ muxer.role = "listener" =>
              stream[s].native.seq > authStream("listener").seq
  /\ \A s1 \in Streams, s2 \in Streams :
       (s1 # s2 /\ stream[s1].st # "absent" /\ stream[s2].st # "absent")
         => stream[s1].native # stream[s2].native

\* a listener's muxer surfaced the stream that came after the authentication
\* stream and returned the first stream the listener created
C14_Witness ==
  \E s1 \in Streams, s2 \in Streams :
    /\ muxer.role = "listener"
    /\ stream[s1].st = "open" /\ stream[s1].surfaced /\ InActive(s1)
    /\ stream[s1].native = [origin |-> "incoming", seq |-> 2]
    /\ stream[s2].st = "open" /\ ~stream[s2].inbound /\ InActive(s2)
    /\ stream[s2].native = [origin |-> "created", seq |-> 1]

(* C15: createStreamMuxer called with a signal that is already aborted closes  *)
(* the native session and throws: no muxer is returned, so newStream is never  *)
(* called on it, and no inbound stream of the session is wrapped, put in the   *)
(* active set or surfaced.                                                     *)
C15_AbortedMuxerNeverBuilt ==
  muxer.aborted =>
    /\ ~muxer.returned
    /\ wtClosed
    /\ activeStreams = <<>>
    /\ \A s \in Streams :
         /\ stream[s].st \in {"absent", "wrapping", "failed"}
         /\ ~stream[s].surfaced
         /\ stream[s].st # "absent" => stream[s].inbound

\* the loop started before the signal test read a stream of the closed session
\* and failed to wrap it
C15_Witness ==
  /\ muxer.aborted
  /\ wtClosed
  /\ loopPc = "crashed"
  /\ \E s \in Streams : stream[s].st = "failed" /\ stream[s].inbound

(* C16: a dial to an address without any certhash component never resolves     *)
(* with a Connection.                                                          *)
C16_NoCerthashNoConnection ==
  certhashes = <<>> => dialPc # "resolved"

(* C17: when authentication completes (the handshake returned and the subset   *)
(* test passed) with the dial's signal aborted, dial closes the native session *)
(* and rejects with the abort error; the upgrader is not called and no         *)
(* Connection is returned.                                                     *)
C17_AbortedAtAuthRejects ==
  [][ ( /\ dialPc = "handshake"
        /\ signalAborted
        /\ remoteExtensions'.got # "none"
        /\ certhashesVerified(remoteExtensions', certhashes) )
      => ( /\ dialPc' = "rejected"
           /\ dialError' = "abort"
           /\ dialRejections' = 1
           /\ upgraderCalls' = 0
           /\ wtCloseCalls' >= 1
           /\ wtState' = "closed" ) ]_vars

\* the signal was aborted while the dial was in flight; the listener reported the dialed certhash
C17_Witness ==
  /\ dialPc = "rejected"
  /\ dialError = "abort"
  /\ Len(certhashes) = 1
  /\ remoteExtensions.got = "list"
  /\ certhashesVerified(remoteExtensions, certhashes)
  /\ upgraderCalls = 0
  /\ wtState = "closed"


\* the positions of a session that was never handed to onSession
NotHandedOver == {"pending", "awaitReady", "timedOut", "readyFailed"}

\* C12: a 'session' event is emitted for an accepted session only if its ready
\* signal resolved before the session-ready timeout; a session that timed out or
\* whose readiness failed is never emitted, never authenticated and never yields a
\* connection, even when it becomes ready later.
C12_EmittedOnlyIfReadyInTime ==
  \A x \in Sessions :
    /\ session[x].emitted >= 1 => session[x].ready = "ready" /\ ~session[x].timedOut
    /\ session[x].pc \notin NotHandedOver => session[x].emitted = 1
    /\ (session[x].timedOut \/ session[x].ready = "failed") =>
         /\ session[x].pc \in {"timedOut", "readyFailed"}
         /\ session[x].emitted = 0
         /\ handled[x] = 0
         /\ connectionEvents[x] = 0
         /\ x \notin Tracked
         /\ session[x].closed = "no"

\* a session that timed out has become ready afterwards, while another session,
\* ready in time, has been handed over
C12_Witness ==
  \E x, y \in Sessions :
    /\ session[x].pc = "timedOut" /\ session[x].ready = "ready"
    /\ session[y].emitted = 1


FailedPcs == {"noAuthStream", "readFailed", "handshakeFailed", "upgradeFailed"}

\* C11: a step in which the handling of one accepted session fails (its
\* authentication stream never arrives or cannot be read, the handshake is rejected
\* or the upgrade is rejected) leaves the listener as it was (still listening, no
\* 'error' dispatched, the server not stopped) and changes no other session, no
\* tracked connection, no handler call and no 'connection' event.
C11_FailureContainedToSession ==
  [][\A x \in Sessions :
       (session[x].pc \notin FailedPcs /\ session'[x].pc \in FailedPcs) =>
         /\ listener' = listener
         /\ connections' = connections
         /\ handled' = handled
         /\ connectionEvents' = connectionEvents
         /\ \A y \in Sessions \ {x} : session'[y] = session[y]]_vars

\* one session has failed its handshake while the listener is listening and
\* another session stays connected, tracked and open
C11_Witness ==
  \E x, y \in Sessions :
    /\ session[x].pc = "handshakeFailed"
    /\ session[y].pc = "connected" /\ session[y].closed = "no" /\ y \in Tracked
    /\ listener.server = "listening" /\ listener.errorEvents = 0


\* the slots whose wrapping has started: they were given an id
Wrapped == {s \in Streams : stream[s].id # ""}

\* C21: the ids of the Managed Streams of a session are the decimal strings of
\* 0, 1, 2, ... taken from one counter for both directions, in the order wrapping
\* started; no two streams share an id, however newStream and the inbound loop
\* interleave.
C21_IdsSequentialAndUnique ==
  /\ streamIDCounter = Cardinality(Wrapped)
  /\ \A s \in Streams :
       /\ stream[s].st \in {"wrapping", "open", "failed"} <=> s \in Wrapped
       /\ s \in Wrapped =>
            stream[s].id = String(Cardinality({u \in Wrapped : u < s}))
  /\ \A s, u \in Wrapped : s # u => stream[s].id # stream[u].id

\* an outbound stream got "0" and an inbound one "1"; the inbound one was pushed
\* first, while newStream was still waiting for writer.ready
C21_Witness ==
  \E s, u \in Streams :
    /\ stream[s].id = "0" /\ ~stream[s].inbound /\ stream[s].st = "wrapping"
    /\ stream[u].id = "1" /\ stream[u].inbound /\ stream[u].st = "open"


ClosedAndFinalized(s, h) ==
  /\ h.str.readerClosed /\ h.str.writerClosed
  /\ findIndex(h.act, s) = 0
  /\ h.str.timelineClose = 1

\* C23: from every state of an open stream, close(), reset() and abort(err) return
\* with the stream read-closed, write-closed and finalized (out of the active set,
\* close time stamped), and an aborted stream stays so; abort calls the native writer.abort() and
\* never writer.close(), and only when the write side was not closed already; reset
\* gives what close gives.
C23_CloseResetAbortFinalize ==
  \A s \in Streams :
    /\ stream[s].aborts >= 1 => ClosedAndFinalized(s, H(s))
    /\ IsOpen(s) =>
         \A resetSeen \in BOOLEAN :
           LET c == close(s, H(s), resetSeen)
               r == reset(s, H(s), resetSeen)
               a == abort(s, H(s), resetSeen)
           IN /\ ClosedAndFinalized(s, c)
              /\ ClosedAndFinalized(s, a)
              /\ r = c
              /\ a.str.closes = stream[s].closes
              /\ a.str.aborts = stream[s].aborts + (IF stream[s].writerClosed THEN 0 ELSE 1)

\* abort has returned on a stream whose write side was open: the native writer was
\* aborted, never closed, and the stream is finalized
C23_Witness ==
  \E s \in Streams :
    /\ stream[s].aborts = 1 /\ stream[s].closes = 0
    /\ ClosedAndFinalized(s, H(s))
    /\ stream[s].streamEnds = 1


C25_CeilingIsConfigured ==
  /\ ~muxer.given => muxer.configured = 1000
  /\ \A s \in Streams :
       stream[s].inbound /\ stream[s].st # "absent" =>
         ((stream[s].st = "rejected") <=> (stream[s].seenActive >= muxer.configured))


\* C26: the upgrader is called at most once per session and only after the
\* session was authenticated (on dial the handshake returned and the dialed
\* certhashes passed the subset test, on the listener secureInbound resolved),
\* with skipEncryption, skipProtection and the muxer factory built on that same
\* session; dial resolves, and the listener tracks, hands over or announces a
\* connection, only after that upgrade resolved.
C26_UpgradeOnceAfterAuthentication ==
  /\ upgraderCalls <= 1
  /\ upgraderCalls = 1 =>
       /\ remoteExtensions # NoExtensions
       /\ isSubset(reportedCerthashes(remoteExtensions), certhashes)
       /\ upgraderOptions = [skipEncryption |-> TRUE, skipProtection |-> TRUE,
                             muxerFactory |-> "wt"]
       /\ dialPc \in {"upgrade", "resolved", "rejected"}
  /\ dialPc = "resolved" => upgraderCalls = 1 /\ dialError = "none"
  /\ \A x \in Sessions :
       /\ session[x].upgrades <= 1
       /\ session[x].upgrades = 1 =>
            /\ session[x].authenticated
            /\ session[x].emitted = 1
            /\ session[x].upgradeOptions = [skipEncryption |-> TRUE, skipProtection |-> TRUE,
                                             muxerFactory |-> x]
       /\ (x \in Tracked \/ handled[x] > 0 \/ connectionEvents[x] > 0) =>
            /\ session[x].upgrades = 1
            /\ session[x].pc \in {"connected", "handlerThrew"}

\* a dial has resolved after its one upgrade, and an accepted session was
\* upgraded once, tracked and announced
C26_Witness ==
  /\ dialPc = "resolved" /\ upgraderCalls = 1
  /\ \E x \in Sessions :
       /\ session[x].pc = "connected" /\ x \in Tracked /\ session[x].upgrades = 1
       /\ connectionEvents[x] = 1


\* the moves NotStarted -> Starting -> Listening -> Closed
ChainMoves ==
  {<<"NotStarted", "Starting">>, <<"Starting", "Listening">>, <<"Listening", "Closed">>}

\* Error entered from Starting or Listening
ErrorMoves == {<<"Starting", "Error">>, <<"Listening", "Error">>}

\* close() called while the server is starting, or after an error
CloseMoves == {<<"Starting", "Closed">>, <<"Error", "Closed">>}

\* 'listening' is dispatched, and listen() resolves, only once listen() was called
\* and the native server became ready; 'close' is dispatched only once close() was
\* called and the native server has closed; getAddrs is empty while NotStarted
ListenerEventsInOrder ==
  /\ listener.listeningEvents <= 1
  /\ (listener.listenPc = "resolved") <=> (listener.listeningEvents = 1)
  /\ listener.listeningEvents = 1 =>
       listener.started /\ listener.server \in {"listening", "failed", "stopped"}
  /\ listener.closeEvents <= 1
  /\ listener.closeEvents = 1 =>
       /\ listener.closePc = "done" /\ listener.stopCalls = 1
       /\ listener.nativeClosed = "closed"
  /\ listener.phase = "NotStarted" =>
       \A address \in Addresses : getAddrs(listener, address) = <<>>
  /\ \A x \in Sessions : session[x].pc # "pending" => listener.listeningEvents = 1

\* every change of the listener's state is one of the moves, and a session is
\* accepted only while Listening
ListenerMoves(moves) ==
  /\ listener'.phase # listener.phase => <<listener.phase, listener'.phase>> \in moves
  /\ \A x \in Sessions :
       session[x].pc = "pending" /\ session'[x].pc # "pending" => listener.phase = "Listening"

C29_UpgradeFailureClosedWith500 ==
  \A x \in Sessions :
    session[x].pc = "upgradeFailed" =>
      /\ session[x].authenticated /\ session[x].upgrades = 1
      /\ session[x].closed = "coded"
      /\ session[x].closeCode = 500
      /\ session[x].reason = "err.message"
      /\ x \notin Tracked
      /\ handled[x] = 0
      /\ connectionEvents[x] = 0

\* a listener with a handler: the upgrade of an authenticated session failed, the
\* session is closed with 500 and the handler was never called
C29_Witness ==
  /\ hasHandler
  /\ connections = <<>>
  /\ \E x \in Sessions :
       /\ session[x].pc = "upgradeFailed" /\ session[x].authenticated
       /\ session[x].closeCode = 500 /\ session[x].reason = "err.message"
       /\ handled[x] = 0


SessionDrained ==
  /\ activeStreams = <<>>
  /\ \A s \in Streams : IsOpen(s) => stream[s].streamEnds = 1 /\ stream[s].timelineClose = 1

\* C28: once the native session is closed, locally or remotely, and the runtime
\* settles the closed-signals of its open streams, every managed stream of the
\* session is eventually finalized, and stays so: the active set is empty and
\* onStreamEnd was called once for each stream that was in it.
C28_SessionCloseFinalizesAll == [](wtClosed => <>[]SessionDrained)

\* the session was closed under two open, untouched streams: both were errored by
\* the runtime and finalized by their observers
C28_Witness ==
  /\ wtClosed
  /\ SessionDrained
  /\ \A s \in Subjects \cup Bystanders :
       /\ IsOpen(s)
       /\ stream[s].closes = 0 /\ stream[s].cancels = 0
       /\ stream[s].wNative = "errored" /\ stream[s].rNative = "errored"
       /\ stream[s].obsW /\ stream[s].obsR


\* C31: whatever closeRead, closeWrite, close, abort, reset, the sink and the
\* source are made to do on a stream, its native reader is cancelled at most once
\* and its native writer is closed or aborted at most once in total, never both.
C31_NativeHalvesClosedOnce ==
  \A s \in Streams :
    /\ stream[s].cancels <= 1
    /\ stream[s].closes + stream[s].aborts <= 1

\* abort() aborted the writer and cancelled the reader; closeWrite() was called
\* afterwards, by the holder or by the sink's finally, and closed nothing
C31_Witness ==
  \E s \in Subjects :
    /\ stream[s].aborts = 1 /\ stream[s].closes = 0 /\ stream[s].cancels = 1
    /\ stream[s].readDone /\ stream[s].writeDone
    /\ stream[s].sinkPc \in {"resolved", "rejected"}


\* C32: no native write is issued on a stream after its write side was closed or
\* aborted: once closeWrite, close, reset or abort was called while the sink was
\* consuming its input, the sink calls writer.write() no more.
C32_NoWriteAfterWriteClosed ==
  \A s \in Streams : ~stream[s].lateWrite


\* C33: listen() settles: it resolves when the native server is listening, and
\* once the native server has reported an error before listening it has failed;
\* it is not left pending.
C33_ListenSettles ==
  /\ listener.listeningEvents >= 1 => listener.listenPc = "resolved"
  /\ (listener.errorEvents >= 1 /\ listener.listeningEvents = 0) =>
       listener.listenPc # "pending"


\* C34: the accept path never closes the native session of a connection it has
\* tracked and passed to the handler: a session closed with the upgrade-failure
\* code has no tracked connection and its connection never reached the handler.
C34_TrackedSessionNeverClosedByAccept ==
  \A x \in Sessions :
    (session[x].closed = "coded" /\ session[x].closeCode = 500) =>
      /\ x \notin Tracked
      /\ handled[x] = 0

====
